---- MODULE Spec2Model ----
(***************************************************************************)
(* A model of the DuckDuckGo MCP tool server (src/unnamed/part_000, the    *)
(* TypeScript entry point with the token-pruning options).  The server     *)
(* exposes two tools, a web search and a news search; every call runs      *)
(* validation, rate-limit admission, the provider call and normalization.  *)
(*                                                                         *)
(* JavaScript runs each callback to completion: the part of the call-tool  *)
(* handler before its await of the provider is one action (CallTool), the  *)
(* part after it another (ProviderSettles).                                *)
(***************************************************************************)
EXTENDS Integers, Sequences, FiniteSets, TLC

VARIABLES
    CONFIG,        \* the configuration snapshot built at startup
    requestCount,  \* the rate-limit counters and window starts
    now,           \* the value Date.now() returns
    ticks,         \* how many times the clock was advanced
    pending,       \* the invocations suspended on their provider call
    last,          \* the invocation that returned most recently, with its result
    admissions,    \* history: time and tool of every admitted call
    running,       \* FALSE once a fault escaped the handler (process.exit)
    env,           \* process.env: the texts of the numeric settings, if set
    listed         \* the tools of the latest tools/list response (none: <<>>)

vars == <<CONFIG, requestCount, now, ticks, pending, last, admissions, running, env, listed>>

----------------------------------------------------------------------------
(* Bounds of the model *)

\* clock advances in one behaviour
MaxTicks == 2
\* invocations that may be suspended on the provider at the same time
MaxInFlight == 2
\* length of the longest result list the provider returns
MaxProviderResults == 3

----------------------------------------------------------------------------
(* JavaScript values.  A number is kept as twice its value, so that halves  *)
(* (1.5, 2.5) are representable; a string is a sequence of characters.      *)

JsUndefined == [type |-> "undefined", num2 |-> 0, str |-> <<>>]
JsNull == [type |-> "object", num2 |-> 0, str |-> <<"null">>]
JsNumber(n) == [type |-> "number", num2 |-> 2 * n, str |-> <<>>]
JsHalves(h) == [type |-> "number", num2 |-> h, str |-> <<>>]
JsString(s) == [type |-> "string", num2 |-> 0, str |-> s]

Repeat(c, n) == [i \in 1..n |-> c]

WhiteSpace == {" ", "\t", "\n"}

\* String.prototype.trim: the string from its first to its last character
\* that is not white space
Trim(s) ==
    LET kept == {i \in 1..Len(s) : s[i] \notin WhiteSpace} IN
    IF kept = {} THEN <<>>
    ELSE SubSeq(s, CHOOSE i \in kept : \A j \in kept : i <= j,
                   CHOOSE i \in kept : \A j \in kept : i >= j)

\* text built by a template literal or a concatenation: a sequence of pieces
Lit(s) == [kind |-> "lit", lit |-> s, val |-> JsUndefined, arr |-> <<>>]
Val(v) == [kind |-> "val", lit |-> "", val |-> v, arr |-> <<>>]
Json(a) == [kind |-> "json", lit |-> "", val |-> JsUndefined, arr |-> a]

----------------------------------------------------------------------------
(* Configuration *)

maxQueryLength == 400
maxResults == 20
defaultSafeSearch == JsString(<<"m", "o", "d", "e", "r", "a", "t", "e">>)
defaultRegion == JsString(<<"w", "t", "-", "w", "t">>)

\* A time in milliseconds, as Date.now() returns it, is kept as whole days and
\* the milliseconds of the day: a month of milliseconds exceeds the integers
\* of the model checker.
DAY_MS == 24 * 60 * 60 * 1000
Ms(n) == [days |-> n \div DAY_MS, ms |-> n % DAY_MS]
TimeAdd(a, b) ==
    [days |-> a.days + b.days + (a.ms + b.ms) \div DAY_MS, ms |-> (a.ms + b.ms) % DAY_MS]
TimeSub(a, b) ==
    IF a.ms >= b.ms
    THEN [days |-> a.days - b.days, ms |-> a.ms - b.ms]
    ELSE [days |-> a.days - b.days - 1, ms |-> a.ms - b.ms + DAY_MS]
TimeGreater(a, b) == a.days > b.days \/ (a.days = b.days /\ a.ms > b.ms)

ONE_SECOND_MS == Ms(1000)
\* 30 * 24 * 60 * 60 * 1000
ONE_MONTH_MS == [days |-> 30, ms |-> 0]

DefaultSearchConfig ==
    [defaultResults |-> JsNumber(3),
     maxSnippetLength |-> 150,
     enableFullContent |-> FALSE,
     stripEmoji |-> FALSE,
     outputFormat |-> "dense"]

----------------------------------------------------------------------------
(* Configuration resolution: the numeric settings of process.env *)

Digits == <<"0", "1", "2", "3", "4", "5", "6", "7", "8", "9">>
IsDigit(c) == \E d \in 1..10 : Digits[d] = c
DigitValue(c) == (CHOOSE d \in 1..10 : Digits[d] = c) - 1

\* the number a sequence of digits denotes, and the digits String(n) gives
RECURSIVE Numeral(_)
Numeral(s) ==
    IF s = <<>> THEN 0
    ELSE 10 * Numeral(SubSeq(s, 1, Len(s) - 1)) + DigitValue(s[Len(s)])

RECURSIVE Decimal(_)
Decimal(n) ==
    IF n < 10 THEN <<Digits[n + 1]>>
    ELSE Decimal(n \div 10) \o <<Digits[(n % 10) + 1]>>

LeadingDigits(s) ==
    CHOOSE k \in 0..Len(s) :
        /\ \A i \in 1..k : IsDigit(s[i])
        /\ k = Len(s) \/ ~IsDigit(s[k + 1])

JsNaN == [type |-> "number", num2 |-> 0, str |-> <<"N", "a", "N">>]

\* parseInt(text, 10): white space and a sign are skipped, the leading digits
\* are read and what follows them is ignored; NaN when no digit is found
parseInt(text) ==
    LET t == Trim(text)
        signed == t # <<>> /\ t[1] \in {"+", "-"}
        body == IF signed THEN Tail(t) ELSE t
        k == LeadingDigits(body)
        n == Numeral(SubSeq(body, 1, k))
    IN  IF k = 0 THEN [nan |-> TRUE, n |-> 0]
        ELSE [nan |-> FALSE, n |-> IF t[1] = "-" THEN -n ELSE n]

\* Number(text), as z.coerce.number() applies it: the whole trimmed text must
\* be a numeric literal, the empty text is 0.  Fractions other than .0 and
\* .5 are not among the texts considered.
ToNumber(text) ==
    LET t == Trim(text)
        signed == t # <<>> /\ t[1] \in {"+", "-"}
        body == IF signed THEN Tail(t) ELSE t
        k == LeadingDigits(body)
        rest == SubSeq(body, k + 1, Len(body))
        sign == IF signed /\ t[1] = "-" THEN -1 ELSE 1
        n == Numeral(SubSeq(body, 1, k))
    IN  IF t = <<>> THEN JsNumber(0)
        ELSE IF k > 0 /\ rest \in {<<>>, <<".">>, <<".", "0">>} THEN JsHalves(sign * 2 * n)
        ELSE IF rest = <<".", "5">> THEN JsHalves(sign * (2 * n + 1))
        ELSE JsNaN

\* z.coerce.number().min(min).max(max).default(default) on an environment text
ZodNumber(value, min, max, default) ==
    IF value = JsUndefined THEN [ok |-> TRUE, value |-> default]
    ELSE LET n == ToNumber(value.str)
         IN  [ok |-> n # JsNaN /\ n.num2 >= 2 * min /\ n.num2 <= 2 * max, value |-> n]

\* EnvConfigSchema.parse(process.env) and the CONFIG literal; ok is FALSE when
\* the schema throws.  Snippet lengths are whole numbers in the texts considered.
ResolveConfig(e) ==
    LET results == ZodNumber(e.DDG_MAX_RESULTS, 1, 20, JsNumber(3))
        snippet == ZodNumber(e.DDG_MAX_SNIPPET_LENGTH, 50, 500, JsNumber(150))
        perSecond == parseInt(IF e.RATE_LIMIT_PER_SECOND = JsUndefined THEN <<"1">>
                              ELSE e.RATE_LIMIT_PER_SECOND.str)
        perMonth == parseInt(IF e.RATE_LIMIT_PER_MONTH = JsUndefined
                             THEN <<"1", "5", "0", "0", "0">>
                             ELSE e.RATE_LIMIT_PER_MONTH.str)
    IN  [ok |-> results.ok /\ snippet.ok,
         config |->
             [rateLimit |->
                  [perSecond |-> perSecond.n, perMonth |-> perMonth.n,
                   notANumber |-> (IF perSecond.nan THEN {"perSecond"} ELSE {})
                                  \cup (IF perMonth.nan THEN {"perMonth"} ELSE {})],
              search |-> [DefaultSearchConfig EXCEPT
                              !.defaultResults = results.value,
                              !.maxSnippetLength = snippet.value.num2 \div 2]]]

\* the environment texts that resolve to the caps rateLimit and to the
\* numeric settings of search
EnvOf(rateLimit, search) ==
    [RATE_LIMIT_PER_SECOND |-> JsString(Decimal(rateLimit.perSecond)),
     RATE_LIMIT_PER_MONTH |-> JsString(Decimal(rateLimit.perMonth)),
     DDG_MAX_RESULTS |->
         JsString(Decimal(search.defaultResults.num2 \div 2)
                  \o (IF search.defaultResults.num2 % 2 = 1 THEN <<".", "5">> ELSE <<>>)),
     DDG_MAX_SNIPPET_LENGTH |-> JsString(Decimal(search.maxSnippetLength))]

----------------------------------------------------------------------------
(* Rate limiting *)

\* new Error(message): the thrown value and its message
NoError == [threw |-> FALSE, isErrorObject |-> FALSE, message |-> <<>>]
ThrowError(msg) == [threw |-> TRUE, isErrorObject |-> TRUE, message |-> msg]
ThrowValue(msg) == [threw |-> TRUE, isErrorObject |-> FALSE, message |-> msg]

PerSecondMessage ==
    <<Lit("Rate limit exceeded: Maximum "), Val(JsNumber(CONFIG.rateLimit.perSecond)),
      Lit(" request(s) per second")>>

PerMonthMessage ==
    <<Lit("Rate limit exceeded: Maximum "), Val(JsNumber(CONFIG.rateLimit.perMonth)),
      Lit(" requests per month")>>

\* mutant: the per-second window is reset once a full second has passed
ResetSecond_AtOneSecond(rc, t) ==
    IF ~TimeGreater(ONE_SECOND_MS, TimeSub(t, rc.lastSecondReset))
    THEN [rc EXCEPT !.second = 0, !.lastSecondReset = t]
    ELSE rc

\* mutant: the count restarts, the window start is kept
ResetSecond_KeepsStart(rc, t) ==
    IF TimeGreater(TimeSub(t, rc.lastSecondReset), ONE_SECOND_MS)
    THEN [rc EXCEPT !.second = 0]
    ELSE rc

\* the two lazy window resets at the head of checkRateLimit
ResetSecond(rc, t) ==
    IF TimeGreater(TimeSub(t, rc.lastSecondReset), ONE_SECOND_MS)
    THEN [rc EXCEPT !.second = 0, !.lastSecondReset = t]
    ELSE rc

\* mutant: the monthly window restarts whenever the per-second window does
ResetMonth_AfterOneSecond(rc, t) ==
    IF TimeGreater(TimeSub(t, rc.lastMonthReset), ONE_SECOND_MS)
    THEN [rc EXCEPT !.month = 0, !.lastMonthReset = t]
    ELSE rc

ResetMonth(rc, t) ==
    IF TimeGreater(TimeSub(t, rc.lastMonthReset), ONE_MONTH_MS)
    THEN [rc EXCEPT !.month = 0, !.lastMonthReset = t]
    ELSE rc

\* mutant: the caps are compared with > instead of >=
checkRateLimit_OffByOne(rc, t) ==
    LET r == ResetMonth(ResetSecond(rc, t), t) IN
    IF r.second > CONFIG.rateLimit.perSecond
    THEN [requestCount |-> r, error |-> ThrowError(PerSecondMessage)]
    ELSE IF r.month > CONFIG.rateLimit.perMonth
    THEN [requestCount |-> r, error |-> ThrowError(PerMonthMessage)]
    ELSE [requestCount |-> [r EXCEPT !.second = @ + 1, !.month = @ + 1],
          error |-> NoError]

\* mutant: the caps are checked, the counters are left for later
checkRateLimit_DeferredIncrement(rc, t) ==
    LET r == ResetMonth(ResetSecond(rc, t), t) IN
    IF r.second >= CONFIG.rateLimit.perSecond
    THEN [requestCount |-> r, error |-> ThrowError(PerSecondMessage)]
    ELSE IF r.month >= CONFIG.rateLimit.perMonth
    THEN [requestCount |-> r, error |-> ThrowError(PerMonthMessage)]
    ELSE [requestCount |-> r, error |-> NoError]

\* mutant: the counters are updated before the caps are checked
checkRateLimit_CountsRejected(rc, t) ==
    LET r == ResetMonth(ResetSecond(rc, t), t)
        c == [r EXCEPT !.second = @ + 1, !.month = @ + 1]
    IN  IF r.second >= CONFIG.rateLimit.perSecond
        THEN [requestCount |-> c, error |-> ThrowError(PerSecondMessage)]
        ELSE IF r.month >= CONFIG.rateLimit.perMonth
        THEN [requestCount |-> c, error |-> ThrowError(PerMonthMessage)]
        ELSE [requestCount |-> c, error |-> NoError]

\* checkRateLimit() run on counters rc at time t: the counters it leaves and
\* the error it throws, if any
\* count >= cap, which is false when the cap is NaN
AtLeast(count, cap) ==
    cap \notin CONFIG.rateLimit.notANumber /\ count >= CONFIG.rateLimit[cap]

\* mutant: the monthly cap is compared first
checkRateLimit_MonthFirst(rc, t) ==
    LET r == ResetMonth(ResetSecond(rc, t), t) IN
    IF AtLeast(r.month, "perMonth")
    THEN [requestCount |-> r, error |-> ThrowError(PerMonthMessage)]
    ELSE IF AtLeast(r.second, "perSecond")
    THEN [requestCount |-> r, error |-> ThrowError(PerSecondMessage)]
    ELSE [requestCount |-> [r EXCEPT !.second = @ + 1, !.month = @ + 1],
          error |-> NoError]

checkRateLimit(rc, t) ==
    LET r == ResetMonth(ResetSecond(rc, t), t) IN
    IF AtLeast(r.second, "perSecond")
    THEN [requestCount |-> r, error |-> ThrowError(PerSecondMessage)]
    ELSE IF AtLeast(r.month, "perMonth")
    THEN [requestCount |-> r, error |-> ThrowError(PerMonthMessage)]
    ELSE [requestCount |-> [r EXCEPT !.second = @ + 1, !.month = @ + 1],
          error |-> NoError]

----------------------------------------------------------------------------
(* Validation *)

S_strict == <<"s", "t", "r", "i", "c", "t">>
S_moderate == <<"m", "o", "d", "e", "r", "a", "t", "e">>
S_off == <<"o", "f", "f">>
S_day == <<"d", "a", "y">>
S_week == <<"w", "e", "e", "k">>
S_month == <<"m", "o", "n", "t", "h">>
S_year == <<"y", "e", "a", "r">>
S_all == <<"a", "l", "l">>

VALID_REGIONS ==
    { <<"w", "t", "-", "w", "t">>, <<"u", "s", "-", "e", "n">>, <<"u", "k", "-", "e", "n">>,
      <<"c", "a", "-", "e", "n">>, <<"a", "u", "-", "e", "n">>, <<"d", "e", "-", "d", "e">>,
      <<"f", "r", "-", "f", "r">>, <<"e", "s", "-", "e", "s">>, <<"i", "t", "-", "i", "t">>,
      <<"j", "p", "-", "j", "p">>, <<"b", "r", "-", "p", "t">>, <<"m", "x", "-", "e", "s">>,
      <<"i", "n", "-", "e", "n">> }

\* the characters [a-z] matches under the i flag
AsciiLetters ==
    {"a", "b", "c", "d", "e", "f", "g", "h", "i", "j", "k", "l", "m", "n", "o", "p", "q",
     "r", "s", "t", "u", "v", "w", "x", "y", "z",
     "A", "B", "C", "D", "E", "F", "G", "H", "I", "J", "K", "L", "M", "N", "O", "P", "Q",
     "R", "S", "T", "U", "V", "W", "X", "Y", "Z"}

\* mutant: the pattern is matched without the i flag
RegionPattern_CaseSensitive(s) ==
    LET lower == {"a", "b", "c", "d", "e", "f", "g", "h", "i", "j", "k", "l", "m", "n",
                  "o", "p", "q", "r", "s", "t", "u", "v", "w", "x", "y", "z"}
    IN  /\ Len(s) = 5
        /\ s[1] \in lower /\ s[2] \in lower
        /\ s[3] = "-"
        /\ s[4] \in lower /\ s[5] \in lower

\* /^[a-z]{2}-[a-z]{2}$/i
RegionPattern(s) ==
    /\ Len(s) = 5
    /\ s[1] \in AsciiLetters /\ s[2] \in AsciiLetters
    /\ s[3] = "-"
    /\ s[4] \in AsciiLetters /\ s[5] \in AsciiLetters

\* mutant: the query is not trimmed before its length is tested
isValidQuery_NoTrim(query) ==
    /\ query.type = "string"
    /\ Len(query.str) > 0
    /\ Len(query.str) <= maxQueryLength

isValidQuery(query) ==
    /\ query.type = "string"
    /\ Len(Trim(query.str)) > 0
    /\ Len(query.str) <= maxQueryLength

isValidCount(count) ==
    \/ count = JsUndefined
    \/ (count.type = "number" /\ count.num2 >= 2 * 1 /\ count.num2 <= 2 * maxResults)

isValidLimit(limit) ==
    \/ limit = JsUndefined
    \/ (limit.type = "number" /\ limit.num2 >= 2 * 1 /\ limit.num2 <= 2 * maxResults)

isValidSafeSearch(safeSearch) ==
    \/ safeSearch = JsUndefined
    \/ (safeSearch.type = "string" /\ safeSearch.str \in {S_strict, S_moderate, S_off})

isValidTime(time) ==
    \/ time = JsUndefined
    \/ (time.type = "string" /\ time.str \in {S_day, S_week, S_month, S_year, S_all})

isValidRegion(region) ==
    IF region = JsUndefined THEN TRUE
    ELSE IF region.type # "string" THEN FALSE
    ELSE region.str \in VALID_REGIONS \/ RegionPattern(region.str)

\* the arguments of a call: absent, or an object with these properties
NoArgs ==
    [present |-> FALSE, query |-> JsUndefined, count |-> JsUndefined, limit |-> JsUndefined,
     safeSearch |-> JsUndefined, region |-> JsUndefined, time |-> JsUndefined]
EmptyArgs == [NoArgs EXCEPT !.present = TRUE]

isWebSearchArgs(args) ==
    /\ args.present
    /\ isValidQuery(args.query)
    /\ isValidCount(args.count)
    /\ isValidLimit(args.limit)
    /\ isValidSafeSearch(args.safeSearch)
    /\ isValidRegion(args.region)
    /\ isValidTime(args.time)

isNewsSearchArgs(args) ==
    /\ args.present
    /\ isValidQuery(args.query)
    /\ isValidCount(args.count)
    /\ isValidLimit(args.limit)
    /\ isValidSafeSearch(args.safeSearch)
    /\ isValidTime(args.time)

----------------------------------------------------------------------------
(* Parameter translation *)

getSafeSearchType(safeSearch) ==
    CASE safeSearch.str = S_strict -> "SafeSearchType.STRICT"
      [] safeSearch.str = S_moderate -> "SafeSearchType.MODERATE"
      [] safeSearch.str = S_off -> "SafeSearchType.OFF"
      [] OTHER -> "undefined"

\* mutant: the map has no entry for year
getTimeType_NoYear(time) ==
    CASE time.str = S_all -> "undefined"
      [] time.str = S_day -> "SearchTimeType.DAY"
      [] time.str = S_week -> "SearchTimeType.WEEK"
      [] time.str = S_month -> "SearchTimeType.MONTH"
      [] OTHER -> "undefined"

getTimeType(time) ==
    CASE time.str = S_all -> "undefined"
      [] time.str = S_day -> "SearchTimeType.DAY"
      [] time.str = S_week -> "SearchTimeType.WEEK"
      [] time.str = S_month -> "SearchTimeType.MONTH"
      [] time.str = S_year -> "SearchTimeType.YEAR"
      [] OTHER -> "undefined"

\* a ?? b
Nullish(a, b) == IF a = JsUndefined \/ a = JsNull THEN b ELSE a

\* a = b default of a destructuring pattern
Default(a, b) == IF a = JsUndefined THEN b ELSE a

----------------------------------------------------------------------------
(* Token pruning helpers *)

Min(a, b) == IF a <= b THEN a ELSE b

\* truthiness of a value, as || tests it
Truthy(v) ==
    CASE v.type = "undefined" -> FALSE
      [] v.type = "string" -> v.str # <<>>
      [] v.type = "number" -> v.num2 # 0
      [] OTHER -> v # JsNull

\* a || b
OrElse(a, b) == IF Truthy(a) THEN a ELSE b

Ellipsis == <<".", ".", ".">>

\* mutant: the ellipsis is appended to maxLen characters
truncateSnippet_CutsAtCap(text, maxLen) ==
    IF Len(text) <= maxLen THEN text
    ELSE SubSeq(text, 1, maxLen) \o Ellipsis

\* truncateSnippet on the characters of a string
truncateSnippet(text, maxLen) ==
    IF Len(text) <= maxLen THEN text
    ELSE SubSeq(text, 1, maxLen - 3) \o Ellipsis

\* code units of the emoji ranges of stripEmojis: characters of the Basic
\* Multilingual Plane (U+2600-U+27BF), and surrogate pairs of the higher ranges
BmpEmoji == {"U+2600", "U+2764"}
EmojiPairs == {<<"U+D83D", "U+DE00">>, <<"U+D83D", "U+DE80">>}

\* text.replace(/[emoji ranges]/gu, ""): every emoji code point is removed
stripEmojis(text) ==
    LET n == Len(text)
        emoji == {i \in 1..n :
                     \/ text[i] \in BmpEmoji
                     \/ i < n /\ <<text[i], text[i + 1]>> \in EmojiPairs
                     \/ i > 1 /\ <<text[i - 1], text[i]>> \in EmojiPairs}
        kept == (1..n) \ emoji
    IN  IF emoji = {} THEN text
        ELSE [j \in 1..Cardinality(kept) |->
                 text[CHOOSE i \in kept : Cardinality({k \in kept : k <= i}) = j]]

\* a URL string: whether new URL() parses it, what precedes the query, the
\* query's parameters in order, and whether the string is the serialization
\* URL.prototype.toString gives
trackingParams ==
    {"utm_source", "utm_medium", "utm_campaign", "utm_term", "utm_content",
     "fbclid", "gclid", "msclkid", "ref"}

\* mutant: "ref" is missing from the list
cleanUrl_KeepsRef(url) ==
    IF url.parses
    THEN [url EXCEPT !.params = SelectSeq(@, LAMBDA p : p.name \notin trackingParams \ {"ref"}),
                     !.serialized = TRUE]
    ELSE url

\* mutant: the whole query is dropped
cleanUrl_DropsQuery(url) ==
    IF url.parses THEN [url EXCEPT !.params = <<>>, !.serialized = TRUE] ELSE url

cleanUrl(url) ==
    IF url.parses
    THEN [url EXCEPT !.params = SelectSeq(@, LAMBDA p : p.name \notin trackingParams),
                     !.serialized = TRUE]
    ELSE url

\* a method call on a value that must be a string: text.length, text.replace
IsString(v) == v.type = "string"

TypeErrorMessage == <<Lit("Cannot read properties of undefined")>>

\* new Date(timestamp).toLocaleDateString("en-US", ...)
formatDate(timestamp) == [type |-> "string", num2 |-> timestamp.num2, str |-> <<"date">>]

----------------------------------------------------------------------------
(* Result normalization *)

\* Array.prototype.slice(0, n): n is truncated to an integer
Slice(results, n) == SubSeq(results, 1, Min(n.num2 \div 2, Len(results)))

\* the body a web result is given before emoji stripping
WebBody(r) == OrElse(r.description, r.title)

\* whether mapping web result r throws a TypeError
WebItemThrows(r) ==
    \/ CONFIG.search.stripEmoji /\ ~IsString(r.title)
    \/ ~CONFIG.search.enableFullContent /\ ~IsString(WebBody(r))
    \/ CONFIG.search.stripEmoji /\ ~IsString(WebBody(r))

StripOpt(v) == IF CONFIG.search.stripEmoji THEN JsString(stripEmojis(v.str)) ELSE v

TruncOpt(v) ==
    IF CONFIG.search.enableFullContent THEN v
    ELSE JsString(truncateSnippet(v.str, CONFIG.search.maxSnippetLength))

\* mutant: the description is truncated before the title takes its place
NormalizeWeb_TruncatesDescriptionOnly(r) ==
    [title |-> StripOpt(r.title),
     description |-> StripOpt(OrElse(TruncOpt(r.description), r.title)),
     url |-> cleanUrl(r.url),
     hostname |-> r.hostname]

NormalizeWeb(r) ==
    [title |-> StripOpt(r.title),
     description |-> StripOpt(TruncOpt(WebBody(r))),
     url |-> cleanUrl(r.url),
     hostname |-> r.hostname]

NewsItemThrows(r) ==
    \/ CONFIG.search.stripEmoji /\ ~IsString(r.title)
    \/ ~CONFIG.search.enableFullContent /\ ~IsString(r.excerpt)
    \/ CONFIG.search.stripEmoji /\ ~IsString(r.excerpt)

NormalizeNews(r) ==
    [title |-> StripOpt(r.title),
     excerpt |-> StripOpt(TruncOpt(r.excerpt)),
     url |-> cleanUrl(r.url),
     source |-> r.syndicate,
     date |-> formatDate(r.date),
     relativeTime |-> r.relativeTime]

UrlPiece(u) == [kind |-> "url", lit |-> "", val |-> JsUndefined, arr |-> <<u>>]
NewLine == Lit("\n")

\* lines.join("\n")
RECURSIVE Join(_)
Join(lines) ==
    IF lines = <<>> THEN <<>>
    ELSE IF Len(lines) = 1 THEN lines[1]
    ELSE lines[1] \o <<NewLine>> \o Join(Tail(lines))

MinimalLine(r) == <<Val(r.title), Lit(": "), UrlPiece(r.url)>>

WebDenseLine(r, i) ==
    <<Lit("["), Val(JsNumber(i)), Lit("] "), Val(r.title), Lit(" | "), Val(r.description),
      Lit(" | "), Val(r.hostname), Lit(" "), UrlPiece(r.url)>>

NewsDenseLine(r, i) ==
    <<Lit("["), Val(JsNumber(i)), Lit("] "), Val(r.title), Lit(" | "), Val(r.excerpt),
      Lit(" | "), Val(r.source), Lit(" "), Val(r.relativeTime), Lit(" "), UrlPiece(r.url)>>

DenseHeader(tag, query, results, effectiveLimit) ==
    <<Lit(tag), Lit(":\""), Val(query), Lit("\" ("), Val(JsNumber(Len(results))), Lit("/"),
      Val(effectiveLimit), Lit(")"), NewLine>>

\* mutant: the minimal format falls through to the dense format
RenderWeb_MinimalFallsThrough(query, results, effectiveLimit) ==
    IF CONFIG.search.outputFormat = "json" THEN <<Json(results)>>
    ELSE DenseHeader("Web", query, results, effectiveLimit)
         \o Join([i \in 1..Len(results) |-> WebDenseLine(results[i], i)])

\* the text performWebSearch returns for the normalized results
RenderWeb(query, results, effectiveLimit) ==
    IF CONFIG.search.outputFormat = "json" THEN <<Json(results)>>
    ELSE IF CONFIG.search.outputFormat = "minimal"
    THEN Join([i \in 1..Len(results) |-> MinimalLine(results[i])])
    ELSE DenseHeader("Web", query, results, effectiveLimit)
         \o Join([i \in 1..Len(results) |-> WebDenseLine(results[i], i)])

RenderNews(query, results, effectiveLimit) ==
    IF CONFIG.search.outputFormat = "json" THEN <<Json(results)>>
    ELSE IF CONFIG.search.outputFormat = "minimal"
    THEN Join([i \in 1..Len(results) |-> MinimalLine(results[i])])
    ELSE DenseHeader("News", query, results, effectiveLimit)
         \o Join([i \in 1..Len(results) |-> NewsDenseLine(results[i], i)])

----------------------------------------------------------------------------
(* The search functions and the call-tool handler *)

WEB_SEARCH_TOOL == "duckduckgo_web_search"
NEWS_SEARCH_TOOL == "duckduckgo_news_search"

NoCall ==
    [name |-> "", args |-> NoArgs, effectiveLimit |-> JsUndefined,
     outbound |-> [fn |-> "", query |-> JsUndefined, safeSearch |-> "", region |-> JsUndefined,
                   hasTime |-> FALSE, time |-> ""],
     stages |-> <<>>]

\* what a run of the handler up to its next suspension point leaves:
\*   kind "throw": an exception is on its way to the catch clause
\*   kind "return": the handler returned the result (isError, text)
\*   kind "await": the provider call `call.outbound` was issued
Thrown(rc, stages, error) ==
    [kind |-> "throw", requestCount |-> rc, stages |-> stages, error |-> error,
     isError |-> FALSE, text |-> <<>>, call |-> NoCall, results |-> <<>>]
Returned(rc, stages, isError, text, results) ==
    [kind |-> "return", requestCount |-> rc, stages |-> stages, error |-> NoError,
     isError |-> isError, text |-> text, call |-> NoCall, results |-> results]
Awaiting(rc, stages, call) ==
    [kind |-> "await", requestCount |-> rc, stages |-> stages, error |-> NoError,
     isError |-> FALSE, text |-> <<>>, call |-> call, results |-> <<>>]

\* mutant: count takes precedence over limit
EffectiveLimit_CountFirst(args) ==
    Nullish(args.count, Nullish(args.limit, CONFIG.search.defaultResults))

\* limit takes precedence over count, both override defaultResults
EffectiveLimit(args) ==
    Nullish(args.limit, Nullish(args.count, CONFIG.search.defaultResults))

\* mutant: the provider call is issued before the rate limit is checked
performWebSearch_SearchFirst(args, rc, t) ==
    LET safeSearch == Default(args.safeSearch, defaultSafeSearch)
        region == Default(args.region, defaultRegion)
        time == Default(args.time, JsString(S_all))
        admission == checkRateLimit(rc, t)
        timeType == getTimeType(time)
    IN  IF admission.error.threw
        THEN Thrown(admission.requestCount, <<"provider", "admission">>, admission.error)
        ELSE Awaiting(admission.requestCount, <<"provider", "admission">>,
                 [name |-> WEB_SEARCH_TOOL, args |-> args,
                  effectiveLimit |-> EffectiveLimit(args),
                  outbound |-> [fn |-> "search", query |-> args.query,
                                safeSearch |-> getSafeSearchType(safeSearch),
                                region |-> region,
                                hasTime |-> timeType # "undefined", time |-> timeType],
                  stages |-> <<>>])

\* performWebSearch from its entry to the await of DDG.search
performWebSearch(args, rc, t) ==
    LET safeSearch == Default(args.safeSearch, defaultSafeSearch)
        region == Default(args.region, defaultRegion)
        time == Default(args.time, JsString(S_all))
        admission == checkRateLimit(rc, t)
        timeType == getTimeType(time)
    IN  IF admission.error.threw
        THEN Thrown(admission.requestCount, <<"admission">>, admission.error)
        ELSE Awaiting(admission.requestCount, <<"admission", "provider">>,
                 [name |-> WEB_SEARCH_TOOL, args |-> args,
                  effectiveLimit |-> EffectiveLimit(args),
                  outbound |-> [fn |-> "search", query |-> args.query,
                                safeSearch |-> getSafeSearchType(safeSearch),
                                region |-> region,
                                hasTime |-> timeType # "undefined", time |-> timeType],
                  stages |-> <<>>])

\* mutant: the news search does not pass through the rate limiter
performNewsSearch_NoRateLimit(args, rc, t) ==
    LET safeSearch == Default(args.safeSearch, defaultSafeSearch)
        time == Default(args.time, JsString(S_all))
        timeType == getTimeType(time)
    IN  Awaiting(rc, <<"admission", "provider">>,
                 [name |-> NEWS_SEARCH_TOOL, args |-> args,
                  effectiveLimit |-> EffectiveLimit(args),
                  outbound |-> [fn |-> "searchNews", query |-> args.query,
                                safeSearch |-> getSafeSearchType(safeSearch),
                                region |-> JsUndefined,
                                hasTime |-> timeType # "undefined", time |-> timeType],
                  stages |-> <<>>])

\* performNewsSearch from its entry to the await of DDG.searchNews
performNewsSearch(args, rc, t) ==
    LET safeSearch == Default(args.safeSearch, defaultSafeSearch)
        time == Default(args.time, JsString(S_all))
        admission == checkRateLimit(rc, t)
        timeType == getTimeType(time)
    IN  IF admission.error.threw
        THEN Thrown(admission.requestCount, <<"admission">>, admission.error)
        ELSE Awaiting(admission.requestCount, <<"admission", "provider">>,
                 [name |-> NEWS_SEARCH_TOOL, args |-> args,
                  effectiveLimit |-> EffectiveLimit(args),
                  outbound |-> [fn |-> "searchNews", query |-> args.query,
                                safeSearch |-> getSafeSearchType(safeSearch),
                                region |-> JsUndefined,
                                hasTime |-> timeType # "undefined", time |-> timeType],
                  stages |-> <<>>])

\* mutant: a call whose provider call fails gives its quota back
performWebSearchResume_RefundsOnFailure(call, outcome, rc) ==
    LET stages == Append(call.stages, "normalization")
        results == Slice(outcome.results, call.effectiveLimit)
    IN  IF outcome.rejected
        THEN Thrown([rc EXCEPT !.second = @ - 1, !.month = @ - 1], call.stages, outcome.error)
        ELSE IF outcome.noResults
        THEN Returned(rc, stages, FALSE,
                      <<Lit("No results for \""), Val(call.args.query), Lit("\"")>>, <<>>)
        ELSE IF \E i \in 1..Len(results) : WebItemThrows(results[i])
        THEN Thrown(rc, stages, ThrowError(TypeErrorMessage))
        ELSE LET normalized == [i \in 1..Len(results) |-> NormalizeWeb(results[i])]
             IN  Returned(rc, stages, FALSE,
                          RenderWeb(call.args.query, normalized, call.effectiveLimit),
                          normalized)

\* performWebSearch from the settling of DDG.search to its return
performWebSearchResume(call, outcome, rc) ==
    LET stages == Append(call.stages, "normalization")
        results == Slice(outcome.results, call.effectiveLimit)
    IN  IF outcome.rejected THEN Thrown(rc, call.stages, outcome.error)
        ELSE IF outcome.noResults
        THEN Returned(rc, stages, FALSE,
                      <<Lit("No results for \""), Val(call.args.query), Lit("\"")>>, <<>>)
        ELSE IF \E i \in 1..Len(results) : WebItemThrows(results[i])
        THEN Thrown(rc, stages, ThrowError(TypeErrorMessage))
        ELSE LET normalized == [i \in 1..Len(results) |-> NormalizeWeb(results[i])]
             IN  Returned(rc, stages, FALSE,
                          RenderWeb(call.args.query, normalized, call.effectiveLimit),
                          normalized)

\* performNewsSearch from the settling of DDG.searchNews to its return
performNewsSearchResume(call, outcome, rc) ==
    LET stages == Append(call.stages, "normalization")
        results == Slice(outcome.results, call.effectiveLimit)
    IN  IF outcome.rejected THEN Thrown(rc, call.stages, outcome.error)
        ELSE IF outcome.noResults
        THEN Returned(rc, stages, FALSE,
                      <<Lit("No news for \""), Val(call.args.query), Lit("\"")>>, <<>>)
        ELSE IF \E i \in 1..Len(results) : NewsItemThrows(results[i])
        THEN Thrown(rc, stages, ThrowError(TypeErrorMessage))
        ELSE LET normalized == [i \in 1..Len(results) |-> NormalizeNews(results[i])]
             IN  Returned(rc, stages, FALSE,
                          RenderNews(call.args.query, normalized, call.effectiveLimit),
                          normalized)

InvalidArgumentsMessage(name) ==
    <<Lit("Invalid arguments for "), Lit(name),
      Lit(". Query must be a non-empty string (max "), Val(JsNumber(maxQueryLength)),
      Lit(" chars).")>>

\* the outcome o of a search function entered after the validation of the arguments
AfterValidation(o) == [o EXCEPT !.stages = <<"validation">> \o @]

\* mutant: the rate limit is checked before the arguments are validated
TryBlock_ChecksLimitFirst(name, args, rc, t) ==
    IF ~args.present
    THEN Thrown(rc, <<>>, ThrowError(<<Lit("No arguments provided")>>))
    ELSE IF name = WEB_SEARCH_TOOL
    THEN IF ~isWebSearchArgs(args)
         THEN Thrown(checkRateLimit(rc, t).requestCount, <<"validation">>,
                     ThrowError(InvalidArgumentsMessage(name)))
         ELSE AfterValidation(performWebSearch(args, rc, t))
    ELSE IF name = NEWS_SEARCH_TOOL
    THEN IF ~isNewsSearchArgs(args)
         THEN Thrown(checkRateLimit(rc, t).requestCount, <<"validation">>,
                     ThrowError(InvalidArgumentsMessage(name)))
         ELSE AfterValidation(performNewsSearch(args, rc, t))
    ELSE Returned(rc, <<>>, TRUE, <<Lit("Unknown tool: "), Lit(name)>>, <<>>)

\* the try block of the handler, from the request to the first await
TryBlock(name, args, rc, t) ==
    IF ~args.present
    THEN Thrown(rc, <<>>, ThrowError(<<Lit("No arguments provided")>>))
    ELSE IF name = WEB_SEARCH_TOOL
    THEN IF ~isWebSearchArgs(args)
         THEN Thrown(rc, <<"validation">>, ThrowError(InvalidArgumentsMessage(name)))
         ELSE AfterValidation(performWebSearch(args, rc, t))
    ELSE IF name = NEWS_SEARCH_TOOL
    THEN IF ~isNewsSearchArgs(args)
         THEN Thrown(rc, <<"validation">>, ThrowError(InvalidArgumentsMessage(name)))
         ELSE AfterValidation(performNewsSearch(args, rc, t))
    ELSE Returned(rc, <<>>, TRUE, <<Lit("Unknown tool: "), Lit(name)>>, <<>>)

\* the try block of the handler, after the await
TryBlockResume(call, outcome, rc) ==
    IF call.name = WEB_SEARCH_TOOL
    THEN performWebSearchResume(call, outcome, rc)
    ELSE performNewsSearchResume(call, outcome, rc)

\* mutant: only Error objects are caught
CatchClause_ErrorsOnly(o) ==
    IF o.kind = "throw" /\ o.error.isErrorObject
    THEN [o EXCEPT !.kind = "return", !.isError = TRUE,
                   !.text = <<Lit("Error: ")>> \o o.error.message]
    ELSE o

\* the catch clause: every exception of the try block becomes an error result
CatchClause(o) ==
    IF o.kind = "throw"
    THEN [o EXCEPT !.kind = "return", !.isError = TRUE,
                   !.text = <<Lit("Error: ")>> \o o.error.message]
    ELSE o

\* the handler of CallToolRequestSchema from the request to its first
\* suspension point, and from the settling of the provider call to its return
CallToolHandler(name, args, rc, t) == CatchClause(TryBlock(name, args, rc, t))
CallToolHandlerResume(call, outcome, rc) == CatchClause(TryBlockResume(call, outcome, rc))

----------------------------------------------------------------------------
(* The server *)

NoResult ==
    [name |-> "", args |-> NoArgs, stages |-> <<>>, fault |-> FALSE, isError |-> FALSE,
     text |-> <<>>, results |-> <<>>, error |-> NoError, effectiveLimit |-> JsUndefined,
     provided |-> 0, items |-> <<>>]

\* the state once the module is loaded, under configuration rateLimit, search
Started(rateLimit, search) ==
    /\ CONFIG = [rateLimit |-> rateLimit, search |-> search]
    /\ now = Ms(0)
    /\ requestCount = [second |-> 0, month |-> 0, lastSecondReset |-> now,
                       lastMonthReset |-> now]
    /\ ticks = 0
    /\ pending = <<>>
    /\ last = NoResult
    /\ admissions = <<>>
    /\ running = TRUE
    /\ env = EnvOf(rateLimit, search)
    /\ listed = <<>>

\* the state once the module was loaded under environment e: when the schema
\* throws, the process exits before CONFIG is read by any handler
ModuleLoaded(e) ==
    LET r == ResolveConfig(e) IN
    /\ env = e
    /\ CONFIG = r.config
    /\ now = Ms(0)
    /\ requestCount = [second |-> 0, month |-> 0, lastSecondReset |-> now,
                       lastMonthReset |-> now]
    /\ ticks = 0
    /\ pending = <<>>
    /\ last = NoResult
    /\ admissions = <<>>
    /\ running = r.ok
    /\ listed = <<>>

\* the result (or the fault) the handler ends with
Result(name, args, o, effectiveLimit, items) ==
    [name |-> name, args |-> args, stages |-> o.stages, fault |-> o.kind = "throw",
     isError |-> o.isError, text |-> o.text, results |-> o.results, error |-> o.error,
     effectiveLimit |-> effectiveLimit, provided |-> Len(items), items |-> items]

\* history: one more call of tool name admitted at time t
Admit(log, t, name) ==
    LET web == IF name = WEB_SEARCH_TOOL THEN 1 ELSE 0
        news == IF name = NEWS_SEARCH_TOOL THEN 1 ELSE 0
        n == Len(log)
    IN  IF n > 0 /\ log[n].t = t
        THEN [log EXCEPT ![n].web = @ + web, ![n].news = @ + news]
        ELSE Append(log, [t |-> t, web |-> web, news |-> news])

\* a tools/call request arrives: the handler runs until it returns or awaits
CallTool(name, args) ==
    LET o == CallToolHandler(name, args, requestCount, now) IN
    /\ running
    /\ o.kind = "await" => Len(pending) < MaxInFlight
    /\ requestCount' = o.requestCount
    /\ IF o.kind = "await"
       THEN /\ pending' = Append(pending, [o.call EXCEPT !.stages = o.stages])
            /\ admissions' = Admit(admissions, now, name)
            /\ UNCHANGED <<last, running>>
       ELSE /\ last' = Result(name, args, o, JsUndefined, <<>>)
            /\ running' = (o.kind # "throw")
            /\ UNCHANGED <<pending, admissions>>
    /\ UNCHANGED <<CONFIG, now, ticks, env, listed>>

\* mutant: a provider call that fails is dropped without a result
ProviderSettles_Cancels(i, outcome) ==
    LET call == pending[i]
        o == CallToolHandlerResume(call, outcome, requestCount)
    IN  /\ running
        /\ pending' = SubSeq(pending, 1, i - 1) \o SubSeq(pending, i + 1, Len(pending))
        /\ last' = IF outcome.rejected THEN last
                   ELSE Result(call.name, call.args, o, call.effectiveLimit, outcome.results)
        /\ running' = (o.kind # "throw")
        /\ requestCount' = o.requestCount
        /\ UNCHANGED <<CONFIG, now, ticks, admissions, env, listed>>

\* the provider call of the i-th suspended invocation settles with outcome
ProviderSettles(i, outcome) ==
    LET call == pending[i]
        o == CallToolHandlerResume(call, outcome, requestCount)
    IN  /\ running
        /\ pending' = SubSeq(pending, 1, i - 1) \o SubSeq(pending, i + 1, Len(pending))
        /\ last' = Result(call.name, call.args, o, call.effectiveLimit, outcome.results)
        /\ running' = (o.kind # "throw")
        /\ requestCount' = o.requestCount
        /\ UNCHANGED <<CONFIG, now, ticks, admissions, env, listed>>

\* the tool objects: name, the properties of inputSchema and those required
WebSearchTool ==
    [name |-> WEB_SEARCH_TOOL,
     properties |-> {"query", "limit", "count", "safeSearch", "region", "time"},
     required |-> {"query"}]
NewsSearchTool ==
    [name |-> NEWS_SEARCH_TOOL,
     properties |-> {"query", "limit", "count", "safeSearch", "time"},
     required |-> {"query"}]

\* mutant: the news tool is not listed
ListToolsHandler_WebOnly == <<WebSearchTool>>

\* the tools the ListToolsRequestSchema handler returns
ListToolsHandler == <<WebSearchTool, NewsSearchTool>>

\* a tools/list request is answered
ListTools ==
    /\ running
    /\ listed' = ListToolsHandler
    /\ UNCHANGED <<CONFIG, requestCount, now, ticks, pending, last, admissions, running, env>>

\* time passes
ClockAdvances(d) ==
    /\ running
    /\ ticks < MaxTicks
    /\ now' = TimeAdd(now, d)
    /\ ticks' = ticks + 1
    /\ UNCHANGED <<CONFIG, requestCount, pending, last, admissions, running, env, listed>>

\* what the provider call settles with
Resolved(noResults, results) ==
    [rejected |-> FALSE, error |-> NoError, noResults |-> noResults, results |-> results]
Rejected(error) ==
    [rejected |-> TRUE, error |-> error, noResults |-> FALSE, results |-> <<>>]

----------------------------------------------------------------------------
(* Spec: overlapping invocations of both tools against the rate limiter *)

Q_a == JsString(<<"a">>)
Q_empty == JsString(<<>>)

SearchTools == {WEB_SEARCH_TOOL, NEWS_SEARCH_TOOL}
ArgsSamples == {[EmptyArgs EXCEPT !.query = Q_empty], [EmptyArgs EXCEPT !.query = Q_a]}

\* the caps the server may be started with
RateLimits ==
    {[perSecond |-> 1, perMonth |-> 1, notANumber |-> {}],
     [perSecond |-> 1, perMonth |-> 2, notANumber |-> {}],
     [perSecond |-> 2, perMonth |-> 3, notANumber |-> {}]}

\* how far the clock moves between two events
ClockSteps == {Ms(1), ONE_SECOND_MS, ONE_MONTH_MS}

\* what the provider call may throw: an Error, or a value that is no Error
ProviderErrors ==
    {ThrowError(<<Lit("DDG detected an anomaly in the request")>>),
     ThrowValue(<<Lit("timeout")>>)}

Url1 ==
    [parses |-> TRUE, serialized |-> FALSE, base |-> "https://x.com/a",
     params |-> <<[name |-> "utm_source", value |-> "y"], [name |-> "id", value |-> "1"]>>]

WebItem1 ==
    [title |-> JsString(<<"T">>), description |-> JsString(<<"d">>), url |-> Url1,
     hostname |-> JsString(<<"x", ".", "c", "o", "m">>)]
\* a result without title and description: truncateSnippet reads undefined.length
WebItemBad == [WebItem1 EXCEPT !.title = JsUndefined, !.description = JsUndefined]

NewsItem1 ==
    [title |-> JsString(<<"T">>), excerpt |-> JsString(<<"e">>), url |-> Url1,
     syndicate |-> JsString(<<"S">>), date |-> JsNumber(0),
     relativeTime |-> JsString(<<"1", "h">>)]
NewsItemBad == [NewsItem1 EXCEPT !.excerpt = JsUndefined]

GoodItem(name) == IF name = WEB_SEARCH_TOOL THEN WebItem1 ELSE NewsItem1
BadItem(name) == IF name = WEB_SEARCH_TOOL THEN WebItemBad ELSE NewsItemBad

Init == \E r \in RateLimits : Started(r, DefaultSearchConfig)

Request == \E name \in SearchTools, args \in ArgsSamples : CallTool(name, args)

ProviderResolves ==
    \E i \in 1..Len(pending) :
        \E outcome \in {Resolved(TRUE, <<>>), Resolved(FALSE, <<BadItem(pending[i].name)>>)} :
            ProviderSettles(i, outcome)

ProviderRejects ==
    \E i \in 1..Len(pending) : \E e \in ProviderErrors : ProviderSettles(i, Rejected(e))

Tick == \E d \in ClockSteps : ClockAdvances(d)

Next == Request \/ ProviderResolves \/ ProviderRejects \/ Tick

Spec == Init /\ [][Next]_vars

----------------------------------------------------------------------------
(* SpecLive: overlapping invocations inside one monthly window, with every   *)
(* issued provider call settling in the end: the promise of the oldest        *)
(* suspended invocation is eventually resolved or rejected                    *)

LiveRateLimits ==
    {[perSecond |-> 1, perMonth |-> 2, notANumber |-> {}],
     [perSecond |-> 2, perMonth |-> 2, notANumber |-> {}]}

InitLive == \E r \in LiveRateLimits : Started(r, DefaultSearchConfig)

\* the clock moves by a millisecond or a second
ShortTick == \E d \in {Ms(1), ONE_SECOND_MS} : ClockAdvances(d)

SettleOldest ==
    /\ pending # <<>>
    /\ \E outcome \in {Resolved(TRUE, <<>>), Resolved(FALSE, <<BadItem(pending[1].name)>>)}
                      \cup {Rejected(e) : e \in ProviderErrors} :
           ProviderSettles(1, outcome)

SpecLive ==
    /\ InitLive
    /\ [][Request \/ ProviderResolves \/ ProviderRejects \/ ShortTick]_vars
    /\ WF_vars(SettleOldest)

----------------------------------------------------------------------------
(* SpecCall: one invocation, with any tool name, arguments and provider      *)
(* answer, made after some calls were admitted in the running window         *)

Q_blank == JsString(<<" ">>)
Q_blanks == JsString(<<" ", "\t", "\n">>)
Q_padded == JsString(<<" ", "a", " ">>)
Q_max == JsString(Repeat("a", maxQueryLength))
Q_maxBlank == JsString(Repeat(" ", maxQueryLength))
Q_maxPadded == JsString(Repeat(" ", maxQueryLength - 1) \o <<"a">>)
Q_long == JsString(Repeat("a", maxQueryLength + 1))
Q_longPadded == JsString(<<" ">> \o Repeat("a", maxQueryLength))

Queries ==
    {JsUndefined, JsNull, JsNumber(7), Q_empty, Q_blank, Q_blanks, Q_a, Q_padded, Q_max,
     Q_maxBlank, Q_maxPadded, Q_long, Q_longPadded}

Limits == {JsUndefined, JsNumber(1), JsNumber(2), JsHalves(5)}
Counts == {JsUndefined, JsNumber(1), JsNumber(3)}

AnyToolNames == SearchTools \cup {"unknown_tool"}

AnyArgs ==
    {NoArgs}
    \cup {[EmptyArgs EXCEPT !.query = q, !.limit = l, !.count = c] :
              q \in Queries, l \in Limits, c \in Counts}

SearchConfigs ==
    {[DefaultSearchConfig EXCEPT !.defaultResults = d, !.outputFormat = f] :
         d \in {JsNumber(1), JsNumber(3), JsHalves(5)}, f \in {"dense", "json", "minimal"}}

\* RATE_LIMIT_PER_SECOND and RATE_LIMIT_PER_MONTH unset
DefaultRateLimit == [perSecond |-> 1, perMonth |-> 15000, notANumber |-> {}]

InitCall ==
    \E c \in SearchConfigs, k \in 0..DefaultRateLimit.perSecond :
        /\ CONFIG = [rateLimit |-> DefaultRateLimit, search |-> c]
        /\ now = Ms(0)
        /\ requestCount = [second |-> k, month |-> k, lastSecondReset |-> now,
                           lastMonthReset |-> now]
        /\ ticks = 0
        /\ pending = <<>>
        /\ last = NoResult
        /\ admissions = IF k = 0 THEN <<>> ELSE <<[t |-> now, web |-> k, news |-> 0]>>
        /\ running = TRUE
        /\ env = EnvOf(DefaultRateLimit, c)
        /\ listed = <<>>

AnyRequest ==
    /\ last = NoResult
    /\ pending = <<>>
    /\ \E name \in AnyToolNames, args \in AnyArgs : CallTool(name, args)

AnyResolution ==
    \E i \in 1..Len(pending) :
        \E outcome \in {Resolved(TRUE, <<>>), Resolved(FALSE, <<BadItem(pending[i].name)>>)}
                       \cup {Resolved(FALSE, Repeat(GoodItem(pending[i].name), n)) :
                                 n \in 0..MaxProviderResults} :
            ProviderSettles(i, outcome)

AnyRejection ==
    \E i \in 1..Len(pending) : \E e \in ProviderErrors : ProviderSettles(i, Rejected(e))

NextCall == AnyRequest \/ AnyResolution \/ AnyRejection

SpecCall == InitCall /\ [][NextCall]_vars

----------------------------------------------------------------------------
(* SpecArgs: one invocation of a search tool with a valid query and any      *)
(* limit, count, safeSearch, time and region                                 *)

NotANumber == JsString(<<"5">>)
Bogus == JsString(<<"x">>)

WideLimits ==
    {JsUndefined, JsNull, NotANumber, JsNumber(0), JsHalves(1), JsNumber(1), JsHalves(5),
     JsNumber(maxResults), JsHalves(2 * maxResults + 1), JsNumber(maxResults + 1)}
WideCounts ==
    {JsUndefined, NotANumber, JsNumber(0), JsNumber(1), JsHalves(5), JsNumber(maxResults + 1)}
SafeSearches == {JsUndefined, JsString(S_strict), JsString(S_moderate), JsString(S_off), Bogus}
Times ==
    {JsUndefined, JsString(S_day), JsString(S_week), JsString(S_month), JsString(S_year),
     JsString(S_all), Bogus}

WideArgs ==
    {[EmptyArgs EXCEPT !.query = Q_a, !.limit = l, !.count = c, !.safeSearch = s, !.time = t] :
         l \in WideLimits, c \in WideCounts, s \in SafeSearches, t \in Times}

InitArgs == Started(DefaultRateLimit, DefaultSearchConfig)

ArgsRequest ==
    /\ last = NoResult
    /\ pending = <<>>
    /\ \E name \in SearchTools, args \in WideArgs : CallTool(name, args)

SpecArgs == InitArgs /\ [][ArgsRequest \/ AnyResolution \/ AnyRejection]_vars

----------------------------------------------------------------------------
(* SpecNormalize: one invocation with default arguments whose provider call  *)
(* resolves with one result, under any token-pruning configuration           *)

ParamNames == {"utm_source", "ref", "id", "q"}
MaxParams == 3

\* absolute URLs, and strings new URL() rejects (such as "/a?ref=1"), with
\* up to MaxParams query parameters
Urls ==
    {[parses |-> p, serialized |-> FALSE, base |-> IF p THEN "https://x.com/a" ELSE "/a",
      params |-> [i \in 1..n |-> [name |-> f[i], value |-> <<"1", "2", "3", "4">>[i]]]] :
         p \in BOOLEAN, n \in 0..MaxParams, f \in [1..MaxParams -> ParamNames]}

SnippetCaps == {50, 150, 500}

PruningConfigs ==
    {[DefaultSearchConfig EXCEPT !.maxSnippetLength = c, !.enableFullContent = full,
                                 !.stripEmoji = strip, !.outputFormat = f] :
         c \in SnippetCaps, full \in BOOLEAN, strip \in BOOLEAN,
         f \in {"dense", "json", "minimal"}}

\* body texts of the lengths around each cap, and the spec's length 200
BodyLengths == {0, 1, 200} \cup UNION {{c - 1, c, c + 1} : c \in SnippetCaps}
Body(n) == JsString([i \in 1..n |-> <<"a", "b", "c">>[(i % 3) + 1]])

WithBody(name, body) ==
    IF name = WEB_SEARCH_TOOL THEN [WebItem1 EXCEPT !.description = body]
    ELSE [NewsItem1 EXCEPT !.excerpt = body]

ProvidedItems(name) ==
    {[GoodItem(name) EXCEPT !.url = u] : u \in Urls}
    \cup {WithBody(name, Body(n)) : n \in BodyLengths}

InitNormalize == \E c \in PruningConfigs : Started(DefaultRateLimit, c)

NormalizeRequest ==
    /\ last = NoResult
    /\ pending = <<>>
    /\ \E name \in SearchTools : CallTool(name, [EmptyArgs EXCEPT !.query = Q_a])

NormalizeResolution ==
    \E i \in 1..Len(pending) :
        \E item \in ProvidedItems(pending[i].name) : ProviderSettles(i, Resolved(FALSE, <<item>>))

SpecNormalize == InitNormalize /\ [][NormalizeRequest \/ NormalizeResolution]_vars

----------------------------------------------------------------------------
(* SpecBodies: one invocation whose provider call resolves with one result   *)
(* whose body is empty, plain or holds emoji, under any pruning configuration *)

MinSnippetCap == 50

\* n characters with the code units of emoji e at position k
EmojiBody(n, k, e) ==
    JsString([i \in 1..n |-> IF i >= k /\ i < k + Len(e) THEN e[i - k + 1] ELSE "a"])

\* emoji inside the part truncation keeps, across its cut and in the part it
\* drops, in bodies of the lengths around the smallest cap
EmojiBodies ==
    {EmojiBody(n, k, e) :
         n \in {MinSnippetCap - 1, MinSnippetCap, MinSnippetCap + 1, MinSnippetCap + 2},
         k \in {1, MinSnippetCap - 4, MinSnippetCap - 3, MinSnippetCap - 1},
         e \in {<<"U+2600">>, <<"U+D83D", "U+DE00">>}}

\* web results without description, whose title is the body
TitleOnly(title) == [WebItem1 EXCEPT !.description = JsString(<<>>), !.title = title]

BodyItems(name) ==
    {WithBody(name, b) : b \in EmojiBodies \cup {Body(n) : n \in BodyLengths}}
    \cup (IF name = WEB_SEARCH_TOOL
          THEN {TitleOnly(b) : b \in EmojiBodies \cup {Body(n) : n \in BodyLengths}}
          ELSE {})

InitBodies == \E c \in PruningConfigs : Started(DefaultRateLimit, c)

BodiesRequest ==
    /\ last = NoResult
    /\ pending = <<>>
    /\ \E name \in SearchTools : CallTool(name, [EmptyArgs EXCEPT !.query = Q_a])

BodiesResolution ==
    \E i \in 1..Len(pending) :
        \E item \in BodyItems(pending[i].name) : ProviderSettles(i, Resolved(FALSE, <<item>>))

SpecBodies == InitBodies /\ [][BodiesRequest \/ BodiesResolution]_vars

----------------------------------------------------------------------------
(* SpecOrder: one invocation with any limit and count whose provider call    *)
(* resolves with a list of distinct results                                  *)

\* the i-th result of the provider's list, told apart by its title
Numbered(name, i) == [GoodItem(name) EXCEPT !.title = JsString(<<Digits[i + 1]>>)]

ProvidedLists(name) ==
    {[i \in 1..n |-> Numbered(name, i)] : n \in 0..MaxProviderResults}

InitOrder == \E c \in SearchConfigs : Started(DefaultRateLimit, c)

OrderRequest ==
    /\ last = NoResult
    /\ pending = <<>>
    /\ \E name \in SearchTools, l \in Limits, c \in Counts :
           CallTool(name, [EmptyArgs EXCEPT !.query = Q_a, !.limit = l, !.count = c])

OrderResolution ==
    \E i \in 1..Len(pending) :
        \E list \in ProvidedLists(pending[i].name) : ProviderSettles(i, Resolved(FALSE, list))

SpecOrder == InitOrder /\ [][OrderRequest \/ OrderResolution]_vars

----------------------------------------------------------------------------
(* SpecRegion: one invocation of a search tool with a valid query and any    *)
(* region                                                                    *)

\* region codes in other cases, codes that are not listed, and strings that
\* differ from a code by one character
UnlistedRegions ==
    {<<"U", "S", "-", "E", "N">>, <<"u", "s", "-", "E", "N">>, <<"z", "z", "-", "z", "z">>,
     <<"x", "X", "-", "y", "Y">>, <<>>, <<"u", "s">>, <<"u", "s", "-", "e">>,
     <<"u", "s", "-", "e", "n", "g">>, <<"u", "s", "a", "-", "e", "n">>,
     <<"u", "s", "_", "e", "n">>, <<"u", "s", "e", "n", "-">>, <<"u", "1", "-", "e", "n">>,
     <<"u", "s", "-", "e", "n", " ">>, <<" ", "u", "s", "-", "e", "n">>,
     <<"u", "s", "-", "e", "n", "\n">>, <<"U+017F", "s", "-", "e", "n">>,
     <<"u", "s", "-", "e", "U+212A">>}

Regions ==
    {JsUndefined, JsNull, JsNumber(7)} \cup {JsString(s) : s \in VALID_REGIONS \cup UnlistedRegions}

InitRegion == Started(DefaultRateLimit, DefaultSearchConfig)

RegionRequest ==
    /\ last = NoResult
    /\ pending = <<>>
    /\ \E name \in SearchTools, region \in Regions :
           CallTool(name, [EmptyArgs EXCEPT !.query = Q_a, !.region = region])

SpecRegion == InitRegion /\ [][RegionRequest \/ AnyResolution \/ AnyRejection]_vars

----------------------------------------------------------------------------
(* SpecEnv: the server is started under any environment and one search is    *)
(* requested                                                                 *)

T_abc == JsString(<<"a", "b", "c">>)

Envs ==
    [RATE_LIMIT_PER_SECOND : {JsUndefined, JsString(<<"2">>), T_abc, JsString(<<"5", "x">>),
                              JsString(<<"-", "1">>)},
     RATE_LIMIT_PER_MONTH : {JsUndefined, JsString(<<"1", "0", "0">>), T_abc},
     DDG_MAX_RESULTS : {JsUndefined, JsString(<<"5">>), JsString(<<"0">>),
                        JsString(<<"2", "1">>), JsString(<<"2", ".", "5">>), T_abc},
     DDG_MAX_SNIPPET_LENGTH : {JsUndefined, JsString(<<"5", "0">>), JsString(<<"4", "9">>),
                               JsString(<<"5", "0", "1">>), T_abc}]

InitEnv == \E e \in Envs : ModuleLoaded(e)

EnvRequest ==
    /\ last = NoResult
    /\ pending = <<>>
    /\ \E name \in SearchTools : CallTool(name, [EmptyArgs EXCEPT !.query = Q_a])

SpecEnv == InitEnv /\ [][EnvRequest \/ ProviderResolves \/ ProviderRejects]_vars

----------------------------------------------------------------------------
(* SpecTools: tools/list requests among calls of listed and other tool names *)

OtherToolNames == {"unknown_tool", "duckduckgo_search", "tools/list"}

InitTools == Started(DefaultRateLimit, DefaultSearchConfig)

ToolsRequest ==
    \E name \in SearchTools \cup OtherToolNames, args \in ArgsSamples \cup {NoArgs, EmptyArgs} :
        CallTool(name, args)

\* the provider call of a suspended invocation resolves with results
ProviderReturnsResults ==
    \E i \in 1..Len(pending), n \in 1..MaxProviderResults :
        ProviderSettles(i, Resolved(FALSE, Repeat(GoodItem(pending[i].name), n)))

SpecTools ==
    InitTools /\ [][ListTools \/ ToolsRequest \/ ProviderResolves \/ ProviderReturnsResults
                      \/ ProviderRejects \/ Tick]_vars

----------------------------------------------------------------------------
(* Properties of the rate limiter, checked under Spec *)

Range(seq) == {seq[i] : i \in 1..Len(seq)}

RECURSIVE SumWeb(_, _)
SumWeb(log, since) ==
    IF log = <<>> THEN 0
    ELSE (IF TimeGreater(since, Head(log).t) THEN 0 ELSE Head(log).web)
         + SumWeb(Tail(log), since)

RECURSIVE SumNews(_, _)
SumNews(log, since) ==
    IF log = <<>> THEN 0
    ELSE (IF TimeGreater(since, Head(log).t) THEN 0 ELSE Head(log).news)
         + SumNews(Tail(log), since)

\* the calls admitted at or after time since, from the history
AdmittedSince(since) == SumWeb(admissions, since) + SumNews(admissions, since)

Pipeline == <<"validation", "admission", "provider", "normalization">>
RejectedByLimiter == <<"validation", "admission">>
IsPrefix(s, t) == Len(s) <= Len(t) /\ s = SubSeq(t, 1, Len(s))

PerSecondError == <<Lit("Error: ")>> \o PerSecondMessage
PerMonthError == <<Lit("Error: ")>> \o PerMonthMessage

SecondWindowElapsed ==
    TimeGreater(TimeSub(now, requestCount.lastSecondReset), ONE_SECOND_MS)
MonthWindowElapsed ==
    TimeGreater(TimeSub(now, requestCount.lastMonthReset), ONE_MONTH_MS)

\* a step in which the handler ran an admission check and was refused
LimiterRefuses == pending' = pending /\ now' = now /\ last'.stages = RejectedByLimiter
\* a step in which the handler admitted a call and issued the provider call
LimiterAdmits == Len(pending') = Len(pending) + 1

\* C1: in every reachable state the per-second counter is at most the
\* per-second cap and the monthly counter at most the per-month cap.
C1_CountersWithinCaps ==
    /\ requestCount.second <= CONFIG.rateLimit.perSecond
    /\ requestCount.month <= CONFIG.rateLimit.perMonth

\* both counters stand at their caps and a further call was refused
C1_Witness ==
    /\ requestCount.second = CONFIG.rateLimit.perSecond
    /\ requestCount.month = CONFIG.rateLimit.perMonth
    /\ last.stages = RejectedByLimiter

\* C2: whatever the interleaving of overlapping invocations, the number of
\* calls that passed admission since the start of the current per-second
\* window is at most the per-second cap, and since the start of the current
\* monthly window at most the per-month cap.
C2_AtomicAdmission ==
    /\ AdmittedSince(requestCount.lastSecondReset) <= CONFIG.rateLimit.perSecond
    /\ AdmittedSince(requestCount.lastMonthReset) <= CONFIG.rateLimit.perMonth

\* two admitted calls are suspended on the provider, the window is full, and
\* a third call that arrived meanwhile was refused
C2_Witness ==
    /\ Len(pending) = 2
    /\ AdmittedSince(requestCount.lastSecondReset) = 2
    /\ CONFIG.rateLimit.perSecond = 2
    /\ last.stages = RejectedByLimiter

\* C3: an admission check that signals RateLimitExceeded leaves each counter
\* unchanged or set to 0 by its lazy window reset, and an admitted check adds
\* exactly one to both counters (counted from 0 when its window was reset).
C3_RejectedNeverIncrements ==
    [][LET secondBase == IF requestCount'.lastSecondReset # requestCount.lastSecondReset
                         THEN 0 ELSE requestCount.second
           monthBase == IF requestCount'.lastMonthReset # requestCount.lastMonthReset
                        THEN 0 ELSE requestCount.month
       IN  /\ LimiterRefuses =>
                /\ last'.isError
                /\ requestCount'.second = secondBase
                /\ requestCount'.month = monthBase
           /\ LimiterAdmits =>
                /\ requestCount'.second = secondBase + 1
                /\ requestCount'.month = monthBase + 1]_vars

\* a call was refused for the monthly cap by a check that reset the per-second window
C3_Witness ==
    /\ last.text = PerMonthError
    /\ requestCount.second = 0
    /\ requestCount.lastSecondReset = now
    /\ requestCount.month = CONFIG.rateLimit.perMonth

\* C4: while the monthly cap is not reached, a call is refused only inside the
\* running per-second window with the counter at the cap, and then with the
\* per-second message; a call admitted inside the window finds the counter
\* below the cap; a call admitted after more than one second restarts the
\* window (count 1, window start = the time of that call).
C4_PerSecondWindow ==
    [][requestCount.month < CONFIG.rateLimit.perMonth =>
         /\ LimiterRefuses =>
              /\ ~SecondWindowElapsed
              /\ requestCount.second = CONFIG.rateLimit.perSecond
              /\ last'.text = PerSecondError
         /\ (LimiterAdmits /\ ~SecondWindowElapsed) =>
              /\ requestCount.second < CONFIG.rateLimit.perSecond
              /\ requestCount'.second = requestCount.second + 1
              /\ requestCount'.lastSecondReset = requestCount.lastSecondReset
         /\ (LimiterAdmits /\ SecondWindowElapsed) =>
              /\ requestCount'.second = 1
              /\ requestCount'.lastSecondReset = now]_vars

\* cap 2: two calls admitted, the third refused with the per-second message,
\* and after more than a second a call was admitted and restarted the window
C4_Witness ==
    /\ CONFIG.rateLimit.perSecond = 2
    /\ last.text = PerSecondError
    /\ AdmittedSince(Ms(0)) = 3
    /\ requestCount.second = 1
    /\ requestCount.lastSecondReset = now
    /\ now # Ms(0)

ValidFor(name, args) ==
    IF name = WEB_SEARCH_TOOL THEN isWebSearchArgs(args) ELSE isNewsSearchArgs(args)

\* C5: the stages of every invocation are a prefix of validation, admission,
\* provider call, normalization; an invocation whose provider call was issued
\* has valid arguments and was admitted; one refused by validation or by the
\* limiter issued no provider call.
C5_StageOrder ==
    /\ IsPrefix(last.stages, Pipeline)
    /\ "provider" \in Range(last.stages) => ValidFor(last.name, last.args)
    /\ (last.name \in SearchTools /\ last.args.present /\ ~ValidFor(last.name, last.args))
           => last.stages = <<"validation">>
    /\ last.text \in {PerSecondError, PerMonthError} => last.stages = RejectedByLimiter
    /\ \A i \in 1..Len(pending) :
           /\ pending[i].stages = SubSeq(Pipeline, 1, 3)
           /\ ValidFor(pending[i].name, pending[i].args)
    /\ Len(pending) <= AdmittedSince(Ms(0))

\* an invocation went through all four stages while another is still suspended
C5_Witness ==
    /\ last.stages = Pipeline
    /\ ~last.isError
    /\ Len(pending) = 1

\* C7: web and news calls draw from one pair of counters: the web and news
\* calls admitted in the current window together never exceed the cap, and
\* once together they fill the per-second window a call of either tool is
\* refused.
C7_SharedCounters ==
    /\ SumWeb(admissions, requestCount.lastSecondReset)
         + SumNews(admissions, requestCount.lastSecondReset) <= CONFIG.rateLimit.perSecond
    /\ SumWeb(admissions, requestCount.lastMonthReset)
         + SumNews(admissions, requestCount.lastMonthReset) <= CONFIG.rateLimit.perMonth
    /\ (/\ ~SecondWindowElapsed
        /\ SumWeb(admissions, requestCount.lastSecondReset)
             + SumNews(admissions, requestCount.lastSecondReset) = CONFIG.rateLimit.perSecond)
       => \A name \in SearchTools :
              CallToolHandler(name, [EmptyArgs EXCEPT !.query = Q_a], requestCount, now).text
                  = PerSecondError

\* one web and one news call fill a window of two, and a further call was refused
C7_Witness ==
    /\ CONFIG.rateLimit.perSecond = 2
    /\ SumWeb(admissions, requestCount.lastSecondReset) = 1
    /\ SumNews(admissions, requestCount.lastSecondReset) = 1
    /\ last.text = PerSecondError

\* C9: every failure inside a tool call (invalid arguments, rate limit,
\* provider exception, normalization exception) comes back as an error-flagged
\* result whose text is "Error: " and the failure's message; no fault leaves
\* the handler, the process keeps running and every further call is answered
\* or suspended on its provider call.
C9_FailuresBecomeErrorResults ==
    /\ running
    /\ ~last.fault
    /\ last.error.threw => (last.isError /\ last.text = <<Lit("Error: ")>> \o last.error.message)
    /\ (last.name \in SearchTools /\ last.args.present /\ ~ValidFor(last.name, last.args))
           => (last.isError /\ last.text = <<Lit("Error: ")>> \o InvalidArgumentsMessage(last.name))
    /\ last.stages = RejectedByLimiter
           => (last.isError /\ last.text \in {PerSecondError, PerMonthError})
    /\ last.stages = SubSeq(Pipeline, 1, 3)
           => (last.isError /\ last.error \in ProviderErrors)
    /\ (last.stages = Pipeline /\ last.error.threw)
           => (last.isError /\ last.text = <<Lit("Error: ")>> \o TypeErrorMessage)
    /\ \A name \in SearchTools, args \in ArgsSamples :
           CallToolHandler(name, args, requestCount, now).kind \in {"return", "await"}

\* a normalization exception came back as an error result, and a call made
\* afterwards is being served
C9_Witness ==
    /\ last.stages = Pipeline
    /\ last.error = ThrowError(TypeErrorMessage)
    /\ last.isError
    /\ Len(pending) = 1
    /\ pending[1].stages = SubSeq(Pipeline, 1, 3)

\* the calls admitted at the instants i..j of the admission history
RECURSIVE AdmittedAt(_, _)
AdmittedAt(i, j) ==
    IF i > j THEN 0
    ELSE admissions[i].web + admissions[i].news + AdmittedAt(i + 1, j)

\* the instants i and j of the history are less than one second apart
WithinOneSecond(i, j) ==
    TimeGreater(ONE_SECOND_MS, TimeSub(admissions[j].t, admissions[i].t))

\* C20: the limiter is fixed-window, so boundary bursts are accepted: with
\* per-second cap N, N calls can be admitted just before a window boundary
\* and N more just after it, 2N calls within less than one second; 2N is also
\* the most any interval shorter than one second admits.
C20_BoundaryBurst ==
    \A i, j \in 1..Len(admissions) :
        (i <= j /\ WithinOneSecond(i, j)) =>
            AdmittedAt(i, j) <= 2 * CONFIG.rateLimit.perSecond

\* as many calls as the cap allows were admitted at the end of one window and
\* as many again one millisecond later, at the start of the next
C20_Witness ==
    \E i \in 1..Len(admissions) - 1 :
        /\ TimeSub(admissions[i + 1].t, admissions[i].t) = Ms(1)
        /\ WithinOneSecond(i, i + 1)
        /\ TimeGreater(requestCount.lastSecondReset, admissions[i].t)
        /\ admissions[i + 1].t = requestCount.lastSecondReset
        /\ AdmittedAt(i, i) = CONFIG.rateLimit.perSecond
        /\ AdmittedAt(i + 1, i + 1) = CONFIG.rateLimit.perSecond
        /\ AdmittedAt(i, i + 1) = 2 * CONFIG.rateLimit.perSecond

\* C22: in every reachable state the per-second counter is the number of
\* calls admitted at or after the start of the current per-second window, and
\* the monthly counter the number admitted at or after the start of the
\* current monthly window.
C22_CountersMatchHistory ==
    /\ requestCount.second = AdmittedSince(requestCount.lastSecondReset)
    /\ requestCount.month = AdmittedSince(requestCount.lastMonthReset)

\* the per-second window was restarted and holds one call while the monthly
\* window, still the first one, holds two
C22_Witness ==
    /\ requestCount.lastMonthReset = Ms(0)
    /\ TimeGreater(requestCount.lastSecondReset, requestCount.lastMonthReset)
    /\ requestCount.second = 1
    /\ requestCount.month = 2
    /\ Len(admissions) = 2

\* a step in which checkRateLimit ran
AdmissionCheck == LimiterRefuses \/ LimiterAdmits

\* the window start moved to the time of the check, the count restarted
SecondWindowReset ==
    /\ requestCount'.lastSecondReset = now
    /\ requestCount'.second = IF LimiterAdmits THEN 1 ELSE 0
MonthWindowReset ==
    /\ requestCount'.lastMonthReset = now
    /\ requestCount'.month = IF LimiterAdmits THEN 1 ELSE 0

\* C23: windows reset lazily and strictly: the per-second window is reset
\* (count 0, start = now) only inside an admission check and exactly when more
\* than 1000 ms have passed since its start, so not at 1000 ms; the monthly
\* window likewise with 30 days; a step that is no admission check leaves the
\* rate-limit state as it was.
C23_LazyStrictResets ==
    [][/\ ~AdmissionCheck => requestCount' = requestCount
       /\ AdmissionCheck =>
            /\ IF SecondWindowElapsed THEN SecondWindowReset
               ELSE requestCount'.lastSecondReset = requestCount.lastSecondReset
            /\ IF MonthWindowElapsed THEN MonthWindowReset
               ELSE requestCount'.lastMonthReset = requestCount.lastMonthReset
       /\ (AdmissionCheck /\ TimeSub(now, requestCount.lastSecondReset) = ONE_SECOND_MS)
            => requestCount'.lastSecondReset = requestCount.lastSecondReset
       /\ (AdmissionCheck /\ TimeSub(now, requestCount.lastMonthReset) = ONE_MONTH_MS)
            => requestCount'.lastMonthReset = requestCount.lastMonthReset]_vars

\* cap 2: a call admitted at exactly 1000 ms joined the first window, and the
\* call admitted one millisecond later restarted it
C23_Witness ==
    /\ Len(admissions) = 3
    /\ admissions[1].t = Ms(0)
    /\ admissions[2].t = ONE_SECOND_MS
    /\ admissions[3].t = TimeAdd(ONE_SECOND_MS, Ms(1))
    /\ requestCount.lastSecondReset = admissions[3].t
    /\ requestCount.second = 1
    /\ requestCount.lastMonthReset = Ms(0)
    /\ requestCount.month = 3

\* the text of a refusal that names the cap n
NamesPerSecondCap(n) ==
    <<Lit("Error: "), Lit("Rate limit exceeded: Maximum "), Val(JsNumber(n)),
      Lit(" request(s) per second")>>
NamesPerMonthCap(n) ==
    <<Lit("Error: "), Lit("Rate limit exceeded: Maximum "), Val(JsNumber(n)),
      Lit(" requests per month")>>

\* C26: a refusal names the cap that was hit; when the per-second and the
\* per-month cap are both reached at one admission check the per-second error
\* is the one reported, and the per-month error is reported only when the
\* per-second counter is below its cap.
C26_RefusalNamesCap ==
    [][LimiterRefuses =>
           /\ last'.isError
           /\ requestCount'.second >= CONFIG.rateLimit.perSecond
                  => last'.text = NamesPerSecondCap(CONFIG.rateLimit.perSecond)
           /\ requestCount'.second < CONFIG.rateLimit.perSecond
                  => /\ requestCount'.month >= CONFIG.rateLimit.perMonth
                     /\ last'.text = NamesPerMonthCap(CONFIG.rateLimit.perMonth)
           /\ NamesPerSecondCap(CONFIG.rateLimit.perSecond)
                  # NamesPerMonthCap(CONFIG.rateLimit.perMonth)]_vars

\* caps 1 and 1: with both counters at their caps inside the running window
\* a call was refused with the per-second error
C26_Witness ==
    /\ CONFIG.rateLimit.perSecond = CONFIG.rateLimit.perMonth
    /\ requestCount.second = CONFIG.rateLimit.perSecond
    /\ requestCount.month = CONFIG.rateLimit.perMonth
    /\ ~SecondWindowElapsed
    /\ last.text = NamesPerSecondCap(CONFIG.rateLimit.perSecond)

\* the monthly counter stands at the per-month cap
MonthlyCapReached == requestCount.month >= CONFIG.rateLimit.perMonth

\* the per-second counter an admission check made now compares with the cap
SecondAfterReset == IF SecondWindowElapsed THEN 0 ELSE requestCount.second

\* C27: once the monthly counter has reached the per-month cap no call of
\* either tool is admitted, whatever per-second resets occur, until an
\* admission check made more than 30 days after the start of the monthly
\* window; that check restarts the monthly window and admits the call if the
\* per-second cap allows.
C27_MonthlyCapHolds ==
    [][MonthlyCapReached =>
           /\ LimiterAdmits => MonthWindowElapsed
           /\ (AdmissionCheck /\ ~MonthWindowElapsed) =>
                  /\ LimiterRefuses
                  /\ requestCount'.month = requestCount.month
                  /\ requestCount'.lastMonthReset = requestCount.lastMonthReset
           /\ (AdmissionCheck /\ MonthWindowElapsed) =>
                  /\ requestCount'.lastMonthReset = now
                  /\ LimiterAdmits <=> SecondAfterReset < CONFIG.rateLimit.perSecond
                  /\ requestCount'.month = IF LimiterAdmits THEN 1 ELSE 0
           /\ ~MonthWindowElapsed =>
                  \A name \in SearchTools :
                      LET o == CallToolHandler(name, [EmptyArgs EXCEPT !.query = Q_a],
                                               requestCount, now)
                      IN  o.kind = "return" /\ o.isError]_vars

\* with the monthly cap reached, a call made exactly 30 days after the window
\* start restarted the per-second window and was refused for the monthly cap;
\* the call made one millisecond later restarted the monthly window and was
\* admitted
C27_Witness ==
    /\ last.text = NamesPerMonthCap(CONFIG.rateLimit.perMonth)
    /\ now = TimeAdd(ONE_MONTH_MS, Ms(1))
    /\ requestCount.lastSecondReset = ONE_MONTH_MS
    /\ requestCount.lastMonthReset = now
    /\ requestCount.month = 1
    /\ AdmittedSince(Ms(0)) = CONFIG.rateLimit.perMonth + 1
    /\ AdmittedSince(now) = 1

----------------------------------------------------------------------------
(* Properties of one invocation, checked under SpecCall *)

AllBlank(s) == \A i \in 1..Len(s) : s[i] \in WhiteSpace

\* missing, not a string, empty, whitespace-only or longer than 400 characters
BadQuery(q) ==
    \/ q.type # "string"
    \/ AllBlank(q.str)
    \/ Len(q.str) > 400

Called == last # NoResult

RejectedByValidation ==
    /\ last.isError
    /\ ~last.fault
    /\ last.text = <<Lit("Error: ")>> \o InvalidArgumentsMessage(last.name)

\* C6: for both tools a request whose query is missing, not a string, empty,
\* whitespace-only or longer than 400 characters is refused with an
\* error-flagged result and no provider call; a query of exactly 400
\* characters with a non-blank character is not refused by validation.
C6_BadQueryRejected ==
    /\ (Called /\ last.name \in SearchTools /\ BadQuery(last.args.query))
           => /\ last.isError
              /\ ~last.fault
              /\ "provider" \notin Range(last.stages)
              /\ last.args.present => RejectedByValidation
    /\ \A i \in 1..Len(pending) : ~BadQuery(pending[i].args.query)
    /\ (/\ Called /\ last.name \in SearchTools /\ last.args.present
        /\ Len(last.args.query.str) = 400 /\ ~AllBlank(last.args.query.str))
           => (~RejectedByValidation /\ "admission" \in Range(last.stages))

\* a news request with a query of 401 characters was refused by validation
C6_Witness ==
    /\ last.name = NEWS_SEARCH_TOOL
    /\ last.args.query = Q_long
    /\ RejectedByValidation
    /\ last.stages = <<"validation">>

NameInText == \E i \in 1..Len(last.text) : last.text[i] = Lit(last.name)

UnknownToolCalled == Called /\ last.name \notin SearchTools

\* C8: whatever the arguments (present, empty or absent), a call of a tool
\* other than the two search tools returns an error-flagged result whose text
\* includes the tool name, and the process keeps running.
C8_UnknownToolNamed ==
    UnknownToolCalled => (last.isError /\ ~last.fault /\ NameInText /\ running)

\* the number of results a text shows: the objects of the JSON array, the
\* lines of the minimal format, the indexed lines of the dense format
Count(text, piece) == Cardinality({i \in 1..Len(text) : text[i] = piece})
RenderedCount(text) ==
    IF CONFIG.search.outputFormat = "json" THEN Len(text[1].arr)
    ELSE IF CONFIG.search.outputFormat = "minimal"
    THEN (IF text = <<>> THEN 0 ELSE Count(text, NewLine) + 1)
    ELSE Count(text, Lit("["))

Present(v) == v # JsUndefined

ExpectedLimit(args) ==
    IF Present(args.limit) THEN args.limit
    ELSE IF Present(args.count) THEN args.count
    ELSE CONFIG.search.defaultResults

NoResultsText(text) ==
    /\ Len(text) = 3
    /\ text[1] \in {Lit("No results for \""), Lit("No news for \"")}

\* the provider answered with a result list that was rendered
Rendered == last.stages = Pipeline /\ ~last.isError /\ ~NoResultsText(last.text)

\* C10: the effective limit of an accepted request is limit when present,
\* else count when present, else the configured default; and the number of
\* results rendered never exceeds it, however many the provider returned.
C10_EffectiveLimit ==
    /\ \A i \in 1..Len(pending) : pending[i].effectiveLimit = ExpectedLimit(pending[i].args)
    /\ last.stages = Pipeline => last.effectiveLimit = ExpectedLimit(last.args)
    /\ Rendered =>
           /\ 2 * RenderedCount(last.text) <= ExpectedLimit(last.args).num2
           /\ RenderedCount(last.text) <= last.provided
           /\ RenderedCount(last.text) = Len(last.results)

\* limit 1 and count 3 were given, the provider returned three results, one was rendered
C10_Witness ==
    /\ Rendered
    /\ last.args.limit = JsNumber(1)
    /\ last.args.count = JsNumber(3)
    /\ last.provided = 3
    /\ RenderedCount(last.text) = 1

----------------------------------------------------------------------------
(* Properties of argument validation, checked under SpecArgs *)

InRange(v) == v.type = "number" /\ v.num2 >= 2 /\ v.num2 <= 40
Whole(v) == v.num2 % 2 = 0

Accepted(args) ==
    \/ \E i \in 1..Len(pending) : pending[i].args = args
    \/ Called /\ last.args = args /\ "admission" \in Range(last.stages)

\* C11: a request is accepted only if limit and count, each when present,
\* is an integer between 1 and 20; any other value of either field is refused
\* as invalid arguments before admission and any provider call, even when the
\* other field is valid.
C11_IntegersOnly ==
    /\ \A args \in WideArgs :
           Accepted(args) =>
               /\ Present(args.limit) => (InRange(args.limit) /\ Whole(args.limit))
               /\ Present(args.count) => (InRange(args.count) /\ Whole(args.count))
    /\ (/\ Called
        /\ \/ Present(last.args.limit) /\ ~(InRange(last.args.limit) /\ Whole(last.args.limit))
           \/ Present(last.args.count) /\ ~(InRange(last.args.count) /\ Whole(last.args.count)))
           => (RejectedByValidation /\ last.stages = <<"validation">>)

SafeSearchConstant(level) ==
    CASE level = JsUndefined -> "SafeSearchType.MODERATE"
      [] level = JsString(<<"s", "t", "r", "i", "c", "t">>) -> "SafeSearchType.STRICT"
      [] level = JsString(<<"m", "o", "d", "e", "r", "a", "t", "e">>) -> "SafeSearchType.MODERATE"
      [] level = JsString(<<"o", "f", "f">>) -> "SafeSearchType.OFF"

TimeConstant(range) ==
    CASE range = JsString(<<"d", "a", "y">>) -> "SearchTimeType.DAY"
      [] range = JsString(<<"w", "e", "e", "k">>) -> "SearchTimeType.WEEK"
      [] range = JsString(<<"m", "o", "n", "t", "h">>) -> "SearchTimeType.MONTH"
      [] range = JsString(<<"y", "e", "a", "r">>) -> "SearchTimeType.YEAR"

NoTimeFilter(range) == range = JsUndefined \/ range = JsString(<<"a", "l", "l">>)

\* C19: the outbound provider request of every accepted request carries the
\* safe-search constant of the requested level (moderate when absent) and the
\* time constant of the requested range; the three levels and the four ranges
\* map to distinct constants; the time parameter is omitted exactly when time
\* is "all" or absent.
C19_OutboundParameters ==
    /\ \A i \in 1..Len(pending) :
           LET args == pending[i].args
               out == pending[i].outbound
           IN  /\ out.query = args.query
               /\ out.safeSearch = SafeSearchConstant(args.safeSearch)
               /\ out.hasTime <=> ~NoTimeFilter(args.time)
               /\ out.hasTime => out.time = TimeConstant(args.time)
    /\ Cardinality({getSafeSearchType(l) : l \in SafeSearches \ {JsUndefined, Bogus}}) = 3
    /\ Cardinality({getTimeType(t) : t \in Times \ {JsUndefined, Bogus, JsString(S_all)}}) = 4

\* a news search of the past year with safe search off is on its way to the provider
C19_Witness ==
    /\ Len(pending) = 1
    /\ pending[1].name = NEWS_SEARCH_TOOL
    /\ pending[1].args.safeSearch = JsString(S_off)
    /\ pending[1].args.time = JsString(S_year)
    /\ pending[1].outbound.safeSearch = "SafeSearchType.OFF"
    /\ pending[1].outbound.hasTime
    /\ pending[1].outbound.time = "SearchTimeType.YEAR"

----------------------------------------------------------------------------
(* Properties of the rendered text, checked under SpecCall *)

NoResultsMessage(name, query) ==
    IF name = WEB_SEARCH_TOOL
    THEN <<Lit("No results for \""), Val(query), Lit("\"")>>
    ELSE <<Lit("No news for \""), Val(query), Lit("\"")>>

\* the provider call of the last invocation resolved with no result at all
ZeroResults == Called /\ last.stages = Pipeline /\ last.provided = 0

\* C12: whenever the provider yields zero results (the no-results signal, or
\* an empty result list), the tool returns, in every output mode, the fixed
\* no-results message naming the query as a non-error result: never an empty
\* array, an empty text or a header alone.
C12_NoResultsMessage ==
    ZeroResults =>
        /\ ~last.isError
        /\ ~last.fault
        /\ last.text = NoResultsMessage(last.name, last.args.query)

\* the line breaks of a text: the "\n" pieces, and the "\n" characters of the
\* values it interpolates
Breaks(text) == {i \in 1..Len(text) : text[i] = NewLine}
EmbeddedBreaks(text) ==
    {<<i, j>> \in (1..Len(text)) \X (1..maxQueryLength) :
        /\ text[i].kind = "val"
        /\ j <= Len(text[i].val.str)
        /\ text[i].val.str[j] = "\n"}
NumLines(text) == 1 + Cardinality(Breaks(text)) + Cardinality(EmbeddedBreaks(text))

\* where the k-th line of a text ends (0 for k = 0)
LineEnd(text, k) ==
    IF k = 0 THEN 0
    ELSE IF k > Cardinality(Breaks(text)) THEN Len(text) + 1
    ELSE CHOOSE i \in Breaks(text) : Cardinality({j \in Breaks(text) : j <= i}) = k
Line(text, k) == SubSeq(text, LineEnd(text, k - 1) + 1, LineEnd(text, k) - 1)

----------------------------------------------------------------------------
(* Properties of result normalization, checked under SpecNormalize *)

TrackingNames ==
    {"utm_source", "utm_medium", "utm_campaign", "utm_term", "utm_content", "fbclid",
     "gclid", "msclkid", "ref"}

HasTracking(url) == \E i \in 1..Len(url.params) : url.params[i].name \in TrackingNames

RECURSIVE NonTracking(_)
NonTracking(params) ==
    IF params = <<>> THEN <<>>
    ELSE IF Head(params).name \in TrackingNames THEN NonTracking(Tail(params))
    ELSE <<Head(params)>> \o NonTracking(Tail(params))

\* the URLs the last result shows, in its result objects and in its text
RenderedUrls ==
    {last.results[i].url : i \in 1..Len(last.results)}
    \cup {last.text[i].arr[1] : i \in {j \in 1..Len(last.text) : last.text[j].kind = "url"}}

\* C13 as stated: no URL of a rendered result contains a tracking parameter,
\* for every URL string the provider can return.
C13_NoTrackingAnyUrl == \A u \in RenderedUrls : ~HasTracking(u)

\* C13, amended: every URL of a rendered result that parses as an absolute URL
\* contains none of the tracking parameters; a URL string that does not parse
\* is rendered as the provider returned it, tracking parameters included.
C13_NoTrackingParsedUrl ==
    /\ \A u \in RenderedUrls : u.parses => ~HasTracking(u)
    /\ \A i \in 1..Len(last.results) :
           ~last.items[i].url.parses => last.results[i].url = last.items[i].url

\* ?utm_source=1&id=2&ref=3 of an absolute URL was rendered as ?id=2
C13_Witness ==
    /\ Len(last.results) = 1
    /\ last.items[1].url.parses
    /\ [i \in 1..Len(last.items[1].url.params) |-> last.items[1].url.params[i].name]
           = <<"utm_source", "id", "ref">>
    /\ last.results[1].url.params = <<[name |-> "id", value |-> "2"]>>
    /\ RenderedUrls = {last.results[1].url}

\* C14: URL sanitization is idempotent and order-preserving: sanitizing a
\* sanitized URL returns it unchanged, and the non-tracking query parameters
\* of the result are exactly those of the input, in their original relative
\* order; ?utm_source=y&id=1 becomes ?id=1.
C14_IdempotentOrderPreserving ==
    /\ \A i \in 1..Len(last.results) :
           LET in == last.items[i].url
               out == last.results[i].url
           IN  /\ cleanUrl(out) = out
               /\ NonTracking(out.params) = NonTracking(in.params)
               /\ in.parses => out.params = NonTracking(in.params)
               /\ out.base = in.base
    /\ cleanUrl(Url1).params = <<[name |-> "id", value |-> "1"]>>

\* ?id=1&utm_source=2&q=3 was sanitized to ?id=1&q=3
C14_Witness ==
    /\ Len(last.results) = 1
    /\ last.items[1].url.parses
    /\ [i \in 1..Len(last.items[1].url.params) |-> last.items[1].url.params[i].name]
           = <<"id", "utm_source", "q">>
    /\ last.results[1].url.params
           = <<[name |-> "id", value |-> "1"], [name |-> "q", value |-> "3"]>>
    /\ cleanUrl(last.results[1].url) = last.results[1].url

\* the body text the provider gave for result i, and the body text rendered
BodyIn(i) ==
    IF last.name = WEB_SEARCH_TOOL
    THEN (IF last.items[i].description.str = <<>> THEN last.items[i].title
          ELSE last.items[i].description)
    ELSE last.items[i].excerpt
BodyOut(i) ==
    IF last.name = WEB_SEARCH_TOOL THEN last.results[i].description
    ELSE last.results[i].excerpt

Cap == CONFIG.search.maxSnippetLength

\* C15: with snippet cap C, a body longer than C is rendered as exactly C
\* characters, the last three being the ellipsis and the first C-3 the body's
\* prefix; a body of length at most C is rendered unchanged; truncating a
\* truncated body changes nothing.
C15_TruncationToCap ==
    (Cap >= 50 /\ Cap <= 500 /\ ~CONFIG.search.enableFullContent) =>
        \A i \in 1..Len(last.results) :
            LET body == BodyIn(i).str
                out == BodyOut(i).str
            IN  /\ Len(body) > Cap =>
                       /\ Len(out) = Cap
                       /\ SubSeq(out, Cap - 2, Cap) = <<".", ".", ".">>
                       /\ SubSeq(out, 1, Cap - 3) = SubSeq(body, 1, Cap - 3)
                /\ Len(body) <= Cap => out = body
                /\ truncateSnippet(out, Cap) = out

\* a body of 200 characters was rendered under cap 150 as 150 characters
\* ending in the ellipsis
C15_Witness ==
    /\ Cap = 150
    /\ ~CONFIG.search.enableFullContent
    /\ Len(last.results) = 1
    /\ Len(BodyIn(1).str) = 200
    /\ Len(BodyOut(1).str) = 150
    /\ SubSeq(BodyOut(1).str, 148, 150) = <<".", ".", ".">>

----------------------------------------------------------------------------
(* Properties of configuration resolution, checked under SpecEnv *)

\* a text that is not a decimal numeral: digits, with at most one fraction
NonNumeric(v) ==
    /\ v # JsUndefined
    /\ LET s == v.str
           dots == {i \in 1..Len(s) : s[i] = "."}
       IN  \/ s = <<>>
           \/ \E i \in 1..Len(s) : s[i] \notin Range(Digits) \cup {"."}
           \/ Cardinality(dots) > 1
           \/ Cardinality(dots) = Len(s)

OutOfRange(v, min, max) ==
    /\ v # JsUndefined
    /\ ~NonNumeric(v)
    /\ (ToNumber(v.str).num2 < 2 * min \/ ToNumber(v.str).num2 > 2 * max)

BadEnvironment ==
    \/ NonNumeric(env.DDG_MAX_RESULTS) \/ OutOfRange(env.DDG_MAX_RESULTS, 1, 20)
    \/ NonNumeric(env.DDG_MAX_SNIPPET_LENGTH) \/ OutOfRange(env.DDG_MAX_SNIPPET_LENGTH, 50, 500)
    \/ NonNumeric(env.RATE_LIMIT_PER_SECOND)
    \/ NonNumeric(env.RATE_LIMIT_PER_MONTH)

\* C17: if a numeric environment setting is malformed or out of range (the
\* default result count, the snippet cap, the per-second or the per-month
\* rate cap), startup fails and no tool call is ever served.
C17_MalformedFailsStartup ==
    BadEnvironment => (~running /\ pending = <<>> /\ last = NoResult)

----------------------------------------------------------------------------
(* Properties of the tool list, checked under SpecTools *)

Names(tools) == {tools[i].name : i \in 1..Len(tools)}

\* the invocation went into a search pipeline, not to the unknown-tool outcome
Dispatched(r) == "validation" \in Range(r.stages)

\* C18: the list-tools operation always returns exactly two tools, web search
\* (with query, region and time parameters) and news search (with query and
\* time), and the listed names are exactly the names the call-tool operation
\* dispatches to a search pipeline rather than to the unknown-tool outcome.
C18_ListedToolsAreDispatched ==
    /\ listed # <<>> =>
           /\ Len(listed) = 2
           /\ Names(listed) = {"duckduckgo_web_search", "duckduckgo_news_search"}
           /\ \A i \in 1..2 :
                  /\ listed[i].name = "duckduckgo_web_search"
                         => {"query", "region", "time"} \subseteq listed[i].properties
                  /\ listed[i].name = "duckduckgo_news_search"
                         => {"query", "time"} \subseteq listed[i].properties
           /\ (Called /\ last.args.present) => (last.name \in Names(listed) <=> Dispatched(last))
           /\ \A i \in 1..Len(pending) : pending[i].name \in Names(listed)
    /\ (Called /\ last.args.present /\ ~Dispatched(last))
           => last.text = <<Lit("Unknown tool: "), Lit(last.name)>>

\* the list was returned, a listed tool was dispatched and is suspended on its
\* provider call, and a name that is not listed got the unknown-tool outcome
C18_Witness ==
    /\ Len(listed) = 2
    /\ Len(pending) = 1
    /\ pending[1].name \in Names(listed)
    /\ last.name = "duckduckgo_search"
    /\ last.text = <<Lit("Unknown tool: "), Lit("duckduckgo_search")>>

----------------------------------------------------------------------------
(* Properties of calls refused before admission, checked under SpecTools *)

\* a call the handler refuses before it reaches checkRateLimit
RefusedBeforeAdmission(r) ==
    /\ r # NoResult
    /\ \/ ~r.args.present
       \/ r.name \notin SearchTools
       \/ ~ValidFor(r.name, r.args)

\* a step in which the handler answered a call without suspending it
Answers == pending' = pending /\ now' = now /\ listed' = listed /\ last' # NoResult

\* C21: a tool call that is refused before admission (absent arguments,
\* invalid arguments for either tool, an unknown tool name) leaves both
\* counters and both window starts as they were, and never reaches the
\* admission or the provider stage.
C21_RefusedCallsUseNoQuota ==
    [][(Answers /\ RefusedBeforeAdmission(last')) =>
           /\ requestCount' = requestCount
           /\ last'.isError
           /\ last'.stages \in {<<>>, <<"validation">>}
           /\ admissions' = admissions]_vars

\* a call with invalid arguments was refused when the per-second window had
\* elapsed with one call counted in it: an admission check would have reset it
C21_Witness ==
    /\ last.name \in SearchTools
    /\ last.args.present
    /\ ~ValidFor(last.name, last.args)
    /\ last.stages = <<"validation">>
    /\ SecondWindowElapsed
    /\ requestCount.second = 1

----------------------------------------------------------------------------
(* Properties of settled provider calls, checked under SpecTools *)

\* a step in which the provider call of a suspended invocation settled
Settles == Len(pending') = Len(pending) - 1

\* C24: admission is counted once per accepted call and never refunded:
\* whether the provider call returns results, signals no results or throws,
\* the step that settles it leaves both counters, both window starts and the
\* history of admissions as they were.
C24_NeverRefunded ==
    [][Settles =>
           /\ requestCount' = requestCount
           /\ admissions' = admissions
           /\ last'.stages \in {SubSeq(Pipeline, 1, 3), Pipeline}]_vars

\* two calls were admitted in different windows; the provider call of one
\* threw and came back as an error while the other is still suspended, and
\* the monthly counter still counts both
C24_Witness ==
    /\ last.stages = SubSeq(Pipeline, 1, 3)
    /\ last.error \in ProviderErrors
    /\ last.isError
    /\ Len(pending) = 1
    /\ requestCount.month = 2
    /\ AdmittedSince(Ms(0)) = 2

----------------------------------------------------------------------------
(* Properties of the rendered bodies, checked under SpecBodies *)

\* the emoji code units of text are those of U+2600 or of a surrogate pair
EmojiFree(text) ==
    \A i \in 1..Len(text) :
        /\ text[i] \notin BmpEmoji
        /\ i < Len(text) => <<text[i], text[i + 1]>> \notin EmojiPairs

\* C25: unless full-content mode is on, the body (description or excerpt) of
\* every rendered result is at most the snippet cap long, also when a web
\* result's empty description gives way to its title and when emoji are
\* stripped after truncation; with full-content mode on the body is the
\* provider's body, never truncated.
C25_BodyWithinCap ==
    \A i \in 1..Len(last.results) :
        LET body == BodyIn(i).str
            out == BodyOut(i).str
        IN  /\ ~CONFIG.search.enableFullContent => Len(out) <= Cap
            /\ (CONFIG.search.enableFullContent /\ ~CONFIG.search.stripEmoji) => out = body
            /\ (CONFIG.search.enableFullContent /\ CONFIG.search.stripEmoji) =>
                   /\ out = stripEmojis(body)
                   /\ (EmojiFree(body) => out = body)

\* a web result without description whose title, holding an emoji, is longer
\* than the cap was rendered with a body shorter than the cap: the title cut
\* to the cap, then stripped of the emoji
C25_Witness ==
    /\ last.name = WEB_SEARCH_TOOL
    /\ Len(last.results) = 1
    /\ ~CONFIG.search.enableFullContent
    /\ CONFIG.search.stripEmoji
    /\ last.items[1].description.str = <<>>
    /\ Len(last.items[1].title.str) > Cap
    /\ ~EmojiFree(last.items[1].title.str)
    /\ Len(BodyOut(1).str) < Cap
    /\ Len(BodyOut(1).str) >= Cap - 2
    /\ EmojiFree(BodyOut(1).str)

----------------------------------------------------------------------------
(* Properties of the order and number of results, checked under SpecOrder *)

\* twice the smaller of the effective limit and the number of provider results
TwiceExpectedCount == Min(last.effectiveLimit.num2, 2 * last.provided)

\* the header of the dense format shows returned over requested
HeaderShows(returned, requested) ==
    /\ Line(last.text, 1)[5] = Val(JsNumber(returned))
    /\ Line(last.text, 1)[6] = Lit("/")
    /\ Line(last.text, 1)[7] = Val(requested)

\* C28: the rendered results are exactly the first min(effective limit,
\* number of provider results) entries of the provider's list, in the
\* provider's order, none dropped, repeated or moved; in dense mode line [i]
\* is the i-th provider result and the header shows that count over the
\* effective limit, the count never above the limit.
C28_FirstEntriesInOrder ==
    Rendered =>
        /\ 2 * Len(last.results) = TwiceExpectedCount
        /\ \A i \in 1..Len(last.results) : last.results[i].title = last.items[i].title
        /\ CONFIG.search.outputFormat = "dense" =>
               /\ HeaderShows(TwiceExpectedCount \div 2, last.effectiveLimit)
               /\ TwiceExpectedCount <= last.effectiveLimit.num2
               /\ \A i \in 1..Len(last.results) :
                      /\ Line(last.text, i + 1)[2] = Val(JsNumber(i))
                      /\ Line(last.text, i + 1)[4] = Val(last.items[i].title)

----------------------------------------------------------------------------
(* Properties of the region of a web search, checked under SpecRegion *)

\* two letters, a hyphen, two letters, in either case
TwoLettersHyphenTwoLetters(s) ==
    /\ Len(s) = 5
    /\ s[3] = "-"
    /\ \A i \in {1, 2, 4, 5} : s[i] \in AsciiLetters

AcceptableRegion(region) ==
    /\ region.type = "string"
    /\ region.str \in VALID_REGIONS \/ TwoLettersHyphenTwoLetters(region.str)

WorldWide == JsString(<<"w", "t", "-", "w", "t">>)

\* C29: the region of a web request, when present, is accepted if and only if
\* it is a string that is a listed code or is two letters, a hyphen and two
\* letters in either case; an accepted region goes to the provider as it was
\* given, and wt-wt goes to the provider when region is absent.
C29_RegionAcceptedAndPassed ==
    /\ \A i \in 1..Len(pending) :
           pending[i].name = WEB_SEARCH_TOOL =>
               LET region == pending[i].args.region IN
               /\ Present(region) => AcceptableRegion(region)
               /\ pending[i].outbound.region = IF Present(region) THEN region ELSE WorldWide
    /\ (Called /\ last.name = WEB_SEARCH_TOOL /\ Present(last.args.region)) =>
           (AcceptableRegion(last.args.region) <=> "admission" \in Range(last.stages))
    /\ (Called /\ last.name = WEB_SEARCH_TOOL /\ "admission" \notin Range(last.stages)) =>
           (RejectedByValidation /\ last.stages = <<"validation">>)

\* a web search of region US-EN, which is listed only in lower case, is on
\* its way to the provider with region US-EN
C29_Witness ==
    /\ Len(pending) = 1
    /\ pending[1].name = WEB_SEARCH_TOOL
    /\ pending[1].args.region = JsString(<<"U", "S", "-", "E", "N">>)
    /\ pending[1].args.region.str \notin VALID_REGIONS
    /\ pending[1].outbound.region = JsString(<<"U", "S", "-", "E", "N">>)

----------------------------------------------------------------------------
(* Properties of the life of an invocation, checked under SpecLive *)

\* the invocations admitted so far, and those of them that were answered
Issued == AdmittedSince(Ms(0))
Settled == Issued - Len(pending)

\* no more than this many provider calls are issued in one monthly window
MaxIssued == CHOOSE m \in {r.perMonth : r \in LiveRateLimits} :
                 \A r \in LiveRateLimits : r.perMonth <= m

\* the monthly counter an admission check made now compares with the cap
MonthAfterReset == IF MonthWindowElapsed THEN 0 ELSE requestCount.month

Without(seq, i) == SubSeq(seq, 1, i - 1) \o SubSeq(seq, i + 1, Len(seq))

\* a step answers at most one invocation: a request is answered at once or
\* suspended on its provider call without a result, and a suspended
\* invocation leaves only with its own result, after its provider call
OneResultEach ==
    /\ Len(pending') = Len(pending) => pending' = pending
    /\ Len(pending') > Len(pending) =>
           /\ last' = last
           /\ SubSeq(pending', 1, Len(pending)) = pending
           /\ Len(pending') = Len(pending) + 1
    /\ Len(pending') < Len(pending) =>
           \E i \in 1..Len(pending) :
               /\ pending' = Without(pending, i)
               /\ last'.name = pending[i].name
               /\ last'.args = pending[i].args
               /\ IsPrefix(pending[i].stages, last'.stages)
               /\ "provider" \in Range(last'.stages)
               /\ ~last'.fault

\* with calls suspended, a request of either tool is still taken: it is
\* answered at once or admitted and suspended in its turn, and it is admitted
\* exactly when its arguments are valid and both counters are below their
\* caps, however many calls are suspended
OthersServed ==
    (running /\ pending # <<>>) =>
        \A name \in SearchTools, args \in ArgsSamples :
            LET o == CallToolHandler(name, args, requestCount, now) IN
            /\ o.kind \in {"return", "await"}
            /\ o.kind = "await" <=>
                   /\ ValidFor(name, args)
                   /\ SecondAfterReset < CONFIG.rateLimit.perSecond
                   /\ MonthAfterReset < CONFIG.rateLimit.perMonth

\* C30: every call-tool invocation eventually returns exactly one result,
\* error-flagged or not, provided its provider call, if one was issued,
\* eventually completes or fails; an issued provider call is never cancelled,
\* and a pending one does not keep other invocations from being admitted or
\* answered.
C30_EveryInvocationAnswered ==
    /\ \A n \in 1..MaxIssued : (Issued = n) ~> (Settled >= n)
    /\ [][OneResultEach /\ OthersServed /\ Issued <= MaxIssued]_vars

\* a web search was admitted first and is still suspended; a news search
\* admitted later has been through its provider call and was answered
C30_Witness ==
    /\ Len(admissions) = 2
    /\ admissions[1].web = 1 /\ admissions[1].news = 0
    /\ admissions[2].web = 0 /\ admissions[2].news = 1
    /\ Len(pending) = 1
    /\ pending[1].name = WEB_SEARCH_TOOL
    /\ last.name = NEWS_SEARCH_TOOL
    /\ last.stages = Pipeline

====
